---- MODULE Spec2Model ----
(***************************************************************************)
(* MudVault Mesh client for DikuMUD: the connection life cycle of          *)
(* mudvault_mesh.c (imc_startup, imc_loop, imc_connect, imc_disconnect,    *)
(* imc_reconnect, imc_authenticate, imc_process_input, imc_send_message,   *)
(* imc_handle_message) and the operator command do_imcreconnect.           *)
(*                                                                         *)
(* Time is the value of time(NULL) in seconds.  The host main loop calls   *)
(* imc_loop several times per second; the calls after the first one in a   *)
(* second return at once (last_loop).                                      *)
(***************************************************************************)
EXTENDS Integers, Sequences, FiniteSets, TLC

(* ---------------- program constants (imc_config.h, openimc.h) --------- *)
IMC_RECONNECT_DELAY == 30
IMC_MAX_RECONNECTS == 10
IMC_PING_INTERVAL == 60
IMC_TIMEOUT == 30
IMC_BUFFER_SIZE == 8192
IMC_MAX_TELLS_MIN == 20
IMC_MAX_CHANNELS_MIN == 30
IMC_MAX_WHO_MIN == 5
\* seconds after which imc_loop resets the rate limiting counters
RateResetInterval == 60
IMC_RETRY_BACKOFF == 2
IMC_MAX_RETRY_DELAY == 300

IMC_ERR_NONE == 0
IMC_ERR_AUTH_FAILED == -2
IMC_ERR_NETWORK == -9

IMC_MUD_NAME == "YourMUDName"
IMC_API_KEY == "your-api-key-here"
IMC_PROTOCOL_VERSION == "1.0"
IMC_MESSAGE_TTL == 300
IMC_MESSAGE_PRIORITY == 5
IMC_FILTER_PROFANITY == TRUE

\* a null char pointer (what glibc prints for it under %s)
NULL == "(null)"

IMC_DISCONNECTED == "IMC_DISCONNECTED"
IMC_CONNECTING == "IMC_CONNECTING"
IMC_CONNECTED == "IMC_CONNECTED"
IMC_AUTHENTICATING == "IMC_AUTHENTICATING"
IMC_AUTHENTICATED == "IMC_AUTHENTICATED"

(* ---------------- bounds of the model --------------------------------- *)
\* time(NULL) when the host process starts; later than every interval, as
\* the epoch clock is, so that a zero time stamp is always stale
StartTime == 200
\* the clock is followed for MaxTime seconds against any gateway
MaxTime == 80
\* and for MaxTimeAccepted seconds against a gateway that accepts every
\* connection and handshake
MaxTimeAccepted == 125
\* frames the gateway has sent and imc_websocket_recv has not read yet
MaxInq == 1
\* unterminated envelopes the gateway leaves in the receive buffer
MaxPartial == 1
\* bytes of one member or brace of an envelope on the wire
EnvLen == 2
\* operator reconnect commands followed
MaxCmds == 1

\* the clock is followed for MaxTimeMsg seconds while the gateway forwards
\* messages
MaxTimeMsg == 1
\* channel commands of players followed while the gateway forwards messages
MaxChannelCmds == 3
\* the clock is followed for MaxTimeCmd seconds while players give commands
MaxTimeCmd == 1
\* commands of any kind followed
MaxCommands == 1
\* commands followed when they are well-formed tells of one player
MaxTells == 21

\* the clock is followed for MaxTimeWire seconds while the gateway sends
\* its numbered stream
MaxTimeWire == 3

\* the clock is followed for MaxTimeRecv seconds while the gateway writes
\* frames byte by byte
MaxTimeRecv == 3
\* frames the gateway writes byte by byte
MaxFrames == 2
\* bytes that arrive together, unless all that were written arrive
MaxPiece == 3

\* imc_websocket_send is called with every string of up to MaxShort bytes
MaxShort == 5
\* the bytes of a string start at one of the seeds 0..MaxSeed
MaxSeed == 3
\* envelopes of up to MaxPayload bytes are written to the socket
MaxPayload == 2
\* the writes of envelopes that are followed
MaxSends == 2

\* the clock is followed for MaxTimeShake seconds after the handshake
MaxTimeShake == 1

\* imc_escape_json is called with every string of up to MaxStr characters
MaxStr == 3

EndTime == StartTime + MaxTime
EndTimeShake == StartTime + MaxTimeShake
EndTimeRecv == StartTime + MaxTimeRecv
EndTimeWire == StartTime + MaxTimeWire
EndTimeMsg == StartTime + MaxTimeMsg
EndTimeCmd == StartTime + MaxTimeCmd
EndTimeAccepted == StartTime + MaxTimeAccepted

\* the channel the model follows
ChannelName == "gossip"

\* the descriptor socket() hands out for the gateway connection
GatewayFd == 3

(* ---------------- inputs from the environment ------------------------- *)
\* how one call of imc_connect ends:
\*   refused    imc_websocket_connect returns -1 at once
\*   timeout    imc_websocket_connect returns -1 after select timed out
\*   hs_fail    imc_websocket_handshake returns FALSE at once
\*   hs_timeout imc_websocket_handshake returns FALSE after select timed out
\*   auth_null  handshake succeeds, imc_create_auth returns NULL
\*   send_fail  handshake succeeds, imc_websocket_send of the auth fails
\*   ok         handshake succeeds, the auth envelope is written
ConnectOutcomes ==
    {"refused", "timeout", "hs_fail", "hs_timeout", "auth_null", "send_fail", "ok"}

\* the outcomes with a gateway that accepts every connection and handshake
AcceptedOutcomes == {"send_fail", "ok"}

\* seconds imc_connect blocks in select() for an outcome
Elapsed(o) == IF o \in {"timeout", "hs_timeout"} THEN IMC_TIMEOUT ELSE 0

(* ---------------- JSON text (json_simple.c) ---------------------------- *)
\* JSON text is the sequence of its members and braces, in the order of the
\* text: "key":"v" is a token with t = "s", "key":n one with t = "i",
\* "key":{ one with t = "{" (the brace that opens the text has no key), and
\* } one with t = "}".  Member values are names and words without
\* characters that need escaping.
Tok(k, t, v, n) == [k |-> k, t |-> t, v |-> v, n |-> n]

OpenTok == Tok("", "{", "", 0)
CloseTok == Tok("", "}", "", 0)

\* the character '\n' between two texts
NL == Tok("", "nl", "", 0)

\* a character of a text that is read byte by byte: the byte b
Chr(b) == IF b = 10 THEN NL ELSE Tok("", "c", "", b)

\* imc_json_create_object: the text "{"
imc_json_create_object == <<OpenTok>>

\* imc_json_add_string
imc_json_add_string(json, key, value) ==
    Append(json, Tok(key, "s", value, 0))

\* imc_json_add_int
imc_json_add_int(json, key, value) ==
    Append(json, Tok(key, "i", "", value))

\* imc_json_add_object: "key": followed by the text of object as it is
imc_json_add_object(json, key, object) ==
    Append(json, Tok(key, "{", "", 0)) \o Tail(object)

\* imc_json_finalize: appends the closing brace
imc_json_finalize(json) == Append(json, CloseTok)

\* "%x" of a digit below 16, as a character
HexDigit(d) == IF d < 10 THEN 48 + d ELSE 87 + d

\* imc_escape_json, the characters written for the character c
EscapeChar(c) ==
    CASE c = 34 -> <<92, 34>>
      [] c = 92 -> <<92, 92>>
      [] c = 8 -> <<92, 98>>
      [] c = 12 -> <<92, 102>>
      [] c = 10 -> <<92, 110>>
      [] c = 13 -> <<92, 114>>
      [] c = 9 -> <<92, 116>>
      [] OTHER -> IF c < 32
                  THEN <<92, 117, 48, 48, HexDigit(c \div 16),
                         HexDigit(c % 16)>>
                  ELSE <<c>>

\* imc_escape_json, the loop: the characters written for str
RECURSIVE EscapeText(_)
EscapeText(str) ==
    IF str = <<>> THEN <<>>
    ELSE EscapeChar(Head(str)) \o EscapeText(Tail(str))

\* bytes of result that writing the character str[i] touches beyond the
\* characters before it: sprintf writes its terminator too
Touched(str, i) ==
    Len(EscapeText(SubSeq(str, 1, i - 1)))
      + (IF Len(EscapeChar(str[i])) = 6 THEN 7 ELSE Len(EscapeChar(str[i])))

\* imc_escape_json writes past the len * 2 + 1 bytes it allocated
Overruns(str) ==
    \/ \E i \in 1..Len(str) : Touched(str, i) > Len(str) * 2 + 1
    \/ Len(EscapeText(str)) + 1 > Len(str) * 2 + 1

\* imc_escape_json: the text it builds, and whether the call returns it.
\* A write past the end of result is undefined: the call may return the
\* text or end the program
imc_escape_json(str) ==
    {[text |-> EscapeText(str), ok |-> ok] :
       ok \in IF Overruns(str) THEN BOOLEAN ELSE {TRUE}}

\* the value of a hexadecimal digit, -1 for any other character
HexValue(c) ==
    IF c >= 48 /\ c <= 57 THEN c - 48
    ELSE IF c >= 97 /\ c <= 102 THEN c - 87
    ELSE IF c >= 65 /\ c <= 70 THEN c - 55
    ELSE -1

\* strtol(digits, NULL, 16): the number the leading hexadecimal digits are
RECURSIVE strtol16(_, _)
strtol16(digits, acc) ==
    IF digits = <<>> \/ HexValue(Head(digits)) < 0 THEN acc
    ELSE strtol16(Tail(digits), acc * 16 + HexValue(Head(digits)))

\* imc_unescape_json, the loop from str[i] on (i from 0)
RECURSIVE UnescapeFrom(_, _)
UnescapeFrom(str, i) ==
    LET len == Len(str)
    IN IF i >= len THEN <<>>
       ELSE IF str[i + 1] = 92 /\ i + 1 < len
       THEN CASE str[i + 2] = 34 -> <<34>> \o UnescapeFrom(str, i + 2)
              [] str[i + 2] = 92 -> <<92>> \o UnescapeFrom(str, i + 2)
              [] str[i + 2] = 98 -> <<8>> \o UnescapeFrom(str, i + 2)
              [] str[i + 2] = 102 -> <<12>> \o UnescapeFrom(str, i + 2)
              [] str[i + 2] = 110 -> <<10>> \o UnescapeFrom(str, i + 2)
              [] str[i + 2] = 114 -> <<13>> \o UnescapeFrom(str, i + 2)
              [] str[i + 2] = 116 -> <<9>> \o UnescapeFrom(str, i + 2)
              [] str[i + 2] = 117 ->
                   IF i + 5 < len
                   THEN <<IF strtol16(SubSeq(str, i + 3, i + 6), 0) < 128
                          THEN strtol16(SubSeq(str, i + 3, i + 6), 0)
                          ELSE 63>> \o UnescapeFrom(str, i + 6)
                   ELSE <<str[i + 1]>> \o UnescapeFrom(str, i + 1)
              [] OTHER -> <<str[i + 1]>> \o UnescapeFrom(str, i + 1)
       ELSE <<str[i + 1]>> \o UnescapeFrom(str, i + 1)

\* imc_unescape_json
imc_unescape_json(str) == UnescapeFrom(str, 0)

\* strstr(json, "\"key\":"): the index of the first member of that name
\* anywhere in the text, 0 if there is none
RECURSIVE KeyPos(_, _, _)
KeyPos(json, key, i) ==
    IF i > Len(json) THEN 0
    ELSE IF json[i].t # "}" /\ json[i].k = key THEN i
    ELSE KeyPos(json, key, i + 1)

\* imc_json_get_string: the value of the first member named key when it is
\* a string, NULL otherwise
imc_json_get_string(json, key) ==
    LET i == KeyPos(json, key, 1)
    IN IF i = 0 THEN NULL
       ELSE IF json[i].t # "s" THEN NULL
       ELSE json[i].v

\* imc_json_get_int: the number after the first member named key, 0 when
\* there is no such member or no digits follow
imc_json_get_int(json, key) ==
    LET i == KeyPos(json, key, 1)
    IN IF i = 0 THEN 0
       ELSE IF json[i].t # "i" THEN 0
       ELSE json[i].n

\* imc_create_auth at time t
imc_create_auth(t) ==
    LET json == imc_json_add_string(
                  imc_json_add_string(
                    imc_json_add_string(
                      imc_json_add_string(imc_json_create_object,
                        "version", IMC_PROTOCOL_VERSION),
                      "id", "uuid"),
                    "timestamp", ToString(t)),
                  "type", "auth")
        from_obj == imc_json_add_string(imc_json_create_object,
                                        "mud", IMC_MUD_NAME)
        to_obj == imc_json_add_string(imc_json_create_object, "mud", "Gateway")
        payload == imc_json_add_string(
                     imc_json_add_string(imc_json_create_object,
                                         "mudName", IMC_MUD_NAME),
                     "token", IMC_API_KEY)
        metadata == imc_json_add_string(
                      imc_json_add_string(
                        imc_json_add_int(
                          imc_json_add_int(imc_json_create_object,
                                           "priority", IMC_MESSAGE_PRIORITY),
                          "ttl", IMC_MESSAGE_TTL),
                        "encoding", "utf-8"),
                      "language", "en")
    IN imc_json_finalize(
         imc_json_add_object(
           imc_json_add_object(
             imc_json_add_object(
               imc_json_add_object(json, "from", from_obj),
               "to", to_obj),
             "payload", payload),
           "metadata", metadata))

\* the from object of imc_create_ping built with the name of the gateway
PingFrom_gateway ==
    imc_json_add_string(imc_json_create_object, "mud", "Gateway")

\* the from object of imc_create_ping
PingFrom ==
    imc_json_add_string(imc_json_create_object, "mud", IMC_MUD_NAME)

\* imc_create_ping at time t
imc_create_ping(t) ==
    LET json == imc_json_add_string(
                  imc_json_add_string(
                    imc_json_add_string(
                      imc_json_add_string(imc_json_create_object,
                        "version", IMC_PROTOCOL_VERSION),
                      "id", "uuid"),
                    "timestamp", ToString(t)),
                  "type", "ping")
        to_obj == imc_json_add_string(imc_json_create_object, "mud", "Gateway")
        payload == imc_json_add_int(imc_json_create_object, "timestamp", t)
        metadata == imc_json_add_string(
                      imc_json_add_string(
                        imc_json_add_int(
                          imc_json_add_int(imc_json_create_object,
                                           "priority", IMC_MESSAGE_PRIORITY),
                          "ttl", IMC_MESSAGE_TTL),
                        "encoding", "utf-8"),
                      "language", "en")
    IN imc_json_finalize(
         imc_json_add_object(
           imc_json_add_object(
             imc_json_add_object(
               imc_json_add_object(json, "from", PingFrom),
               "to", to_obj),
             "payload", payload),
           "metadata", metadata))

\* an envelope built the way imc_create_auth and imc_create_ping build
\* theirs, for the creation functions that openimc.h declares and
\* mudvault_mesh.c does not define: to_user and the members of members are
\* left out when empty
CreateEnvelope(t, type, from_user, to_mud, to_user, members) ==
    LET json == imc_json_add_string(
                  imc_json_add_string(
                    imc_json_add_string(
                      imc_json_add_string(imc_json_create_object,
                        "version", IMC_PROTOCOL_VERSION),
                      "id", "uuid"),
                    "timestamp", ToString(t)),
                  "type", type)
        from_mud == imc_json_add_string(imc_json_create_object,
                                        "mud", IMC_MUD_NAME)
        from_obj == IF from_user = "" THEN from_mud
                    ELSE imc_json_add_string(from_mud, "user", from_user)
        to_mud_obj == imc_json_add_string(imc_json_create_object, "mud", to_mud)
        to_obj == IF to_user = "" THEN to_mud_obj
                  ELSE imc_json_add_string(to_mud_obj, "user", to_user)
    IN imc_json_finalize(
         imc_json_add_object(
           imc_json_add_object(
             imc_json_add_object(json, "from", from_obj),
             "to", to_obj),
           "payload", <<OpenTok>> \o members))

\* imc_create_pong
imc_create_pong(t, timestamp) ==
    CreateEnvelope(t, "pong", "", "Gateway", "",
                   <<Tok("timestamp", "i", "", timestamp)>>)

(* ---------------- reading an envelope as JSON -------------------------- *)
\* the index of the member named key of the object opened at text[i - 1],
\* 0 if the object has none; d counts the objects open inside it
RECURSIVE MemberAt(_, _, _, _)
MemberAt(text, i, d, key) ==
    IF i > Len(text) THEN 0
    ELSE IF text[i].t = "}"
         THEN IF d = 0 THEN 0 ELSE MemberAt(text, i + 1, d - 1, key)
    ELSE IF d = 0 /\ text[i].k = key THEN i
    ELSE MemberAt(text, i + 1, IF text[i].t = "{" THEN d + 1 ELSE d, key)

\* the index of the member that path names from the object opened at
\* text[p], walking nested objects by member name
RECURSIVE Walk(_, _, _)
Walk(text, p, path) ==
    LET i == MemberAt(text, p + 1, 0, Head(path))
    IN IF i = 0 \/ Len(path) = 1 THEN i
       ELSE IF text[i].t = "{" THEN Walk(text, i, Tail(path))
       ELSE 0

\* the string that path names in an envelope, NULL if there is none
Field(text, path) ==
    LET i == IF text = <<>> THEN 0 ELSE Walk(text, 1, path)
    IN IF i = 0 THEN NULL
       ELSE IF text[i].t # "s" THEN NULL
       ELSE text[i].v

\* the type of an envelope
EnvType(text) == Field(text, <<"type">>)

(* ---------------- envelopes of the gateway ----------------------------- *)
\* a member "key":"value", none when value is empty
Str(key, value) == IF value = "" THEN <<>> ELSE <<Tok(key, "s", value, 0)>>

\* an object member "key":{ members }
Obj(key, members) == <<Tok(key, "{", "", 0)>> \o members \o <<CloseTok>>

\* an envelope of the wire schema; an empty string leaves the member out
Envelope(version, type, from_mud, from_user, to_mud, to_user, payload) ==
    <<OpenTok>> \o Str("version", version) \o Str("type", type)
      \o Obj("from", Str("mud", from_mud) \o Str("user", from_user))
      \o Obj("to", Str("mud", to_mud) \o Str("user", to_user))
      \o Obj("payload", payload) \o <<CloseTok>>

\* the envelopes of the gateway itself: the answer to auth, a pong and a
\* ping
GatewayEnvelope(type) ==
    Envelope(IMC_PROTOCOL_VERSION, type, "Gateway", "", IMC_MUD_NAME, "",
             IF type = "auth" THEN <<>>
             ELSE <<Tok("timestamp", "i", "", StartTime)>>)

\* the members of an envelope under the names imc_parse_message and
\* imc_handle_message look up
Dotted(from_mud, from_user, to_mud, to_user, payload) ==
    Str("from.mud", from_mud) \o Str("from.user", from_user)
      \o Str("to.mud", to_mud) \o Str("to.user", to_user)
      \o [i \in 1..Len(payload) |->
            [payload[i] EXCEPT !.k = "payload." \o @]]

\* an envelope forwarded by the gateway.  shape "schema": the wire schema;
\* shape "both": the wire schema, with the members repeated under their
\* dotted names as further members of the envelope
Wire(shape, version, type, from_mud, from_user, to_mud, to_user, payload) ==
    LET e == Envelope(version, type, from_mud, from_user, to_mud, to_user,
                      payload)
    IN IF shape = "schema" THEN e
       ELSE SubSeq(e, 1, Len(e) - 1)
              \o Dotted(from_mud, from_user, to_mud, to_user, payload)
              \o <<CloseTok>>

Shapes == {"schema", "both"}

\* tells from Alice@Beta to a player who is online (Bob) and to one who is
\* not (Eve), with and without version and from.mud
TellDocs ==
    {Wire(shape, version, "tell", from_mud, "Alice", IMC_MUD_NAME, to_user,
          Str("message", "hi")) :
       shape \in Shapes, version \in {IMC_PROTOCOL_VERSION, ""},
       from_mud \in {"Beta", ""}, to_user \in {"Bob", "Eve"}}

\* the payloads of channel envelopes: a message, and a join and a leave
\* without a message
ChannelPayloads ==
    {Str("channel", ChannelName) \o Str("message", "hello"),
     Str("channel", ChannelName) \o Str("action", "join"),
     Str("channel", ChannelName) \o Str("action", "leave")}

\* channel envelopes from Dan@Beta, and from the local player Bob as the
\* gateway fans them back
ChannelDocs ==
    {Wire(shape, IMC_PROTOCOL_VERSION, "channel", from[1], from[2], "", "",
          payload) :
       shape \in Shapes,
       from \in {<<"Beta", "Dan">>, <<IMC_MUD_NAME, "Bob">>},
       payload \in ChannelPayloads}

\* an envelope of a type that is not in the type table, and a pong without
\* version
OtherDocs ==
    {Wire("schema", IMC_PROTOCOL_VERSION, "mail", "Beta", "Alice",
          IMC_MUD_NAME, "Bob", Str("message", "hi")),
     Wire("schema", "", "pong", "Gateway", "", IMC_MUD_NAME, "",
          <<Tok("timestamp", "i", "", StartTime)>>)}

\* the envelopes the gateway forwards, each a complete line
MsgDocs == TellDocs \cup ChannelDocs \cup OtherDocs

\* an envelope with the member "id" as its first
Numbered(id, env) == <<OpenTok, Tok("id", "s", id, 0)>> \o Tail(env)

\* the numbered stream of the gateway, in the order of the wire: a pong, a
\* tell of Alice@Beta to Bob and a ping
StreamDocs ==
    <<Numbered("1", GatewayEnvelope("pong")),
      Numbered("2", Wire("both", IMC_PROTOCOL_VERSION, "tell", "Beta",
                         "Alice", IMC_MUD_NAME, "Bob", Str("message", "hi"))),
      Numbered("3", GatewayEnvelope("ping"))>>

\* the ids of the stream, in the order of the wire
StreamIds == [i \in 1..Len(StreamDocs) |-> Field(StreamDocs[i], <<"id">>)]

\* where a read can end inside an envelope of the stream: after its
\* second member
SplitAt == 3

\* the stream in the pieces that frames are made of: each envelope in two
\* parts, and the '\n' that ends its line
StreamPieces ==
    [i \in 1..3 * Len(StreamDocs) |->
       LET doc == StreamDocs[(i + 2) \div 3]
       IN CASE i % 3 = 1 -> SubSeq(doc, 1, SplitAt)
            [] i % 3 = 2 -> SubSeq(doc, SplitAt + 1, Len(doc))
            [] OTHER -> <<NL>>]

\* the text of the pieces from the i-th to the j-th
RECURSIVE StreamText(_, _)
StreamText(i, j) ==
    IF i > j THEN <<>> ELSE StreamPieces[i] \o StreamText(i + 1, j)

\* envelope types the gateway sends of its own
InTypes == {"auth", "pong", "ping"}

\* a text frame from the gateway: one envelope, with or without a newline
Frames == [doc : {GatewayEnvelope(type) : type \in InTypes}, nl : BOOLEAN]

\* what recv() finds on the socket: data (or EAGAIN when nothing is
\* queued), or a socket error other than EAGAIN
RecvResults == {"data", "error"}

VARIABLES
    now,          \* time(NULL)
    allocated,    \* imc_data != NULL
    imc_active,   \* imc_active
    imc_data,     \* *imc_data
    buffer,       \* the text held in imc_data->buffer[0..buflen)
    last_loop,    \* static last_loop of imc_loop
    nopen,        \* descriptors of gateway sockets open in the process
    inq,          \* frames sent by the gateway, not yet read
    op,           \* the operation that ran last and what it did
    failed_reconnects, \* reconnect attempts made since authenticated or reset
    ping_wait,    \* time of the oldest ping not followed by a pong, 0 if none
    cmds,         \* operator reconnect commands issued
    rate,         \* the rate limiting statics of mudvault_mesh.c
    last_rate_reset, \* static last_rate_reset of imc_loop
    online,       \* names of the players in the host's character_list
    members,      \* names of the local players on the channel ChannelName
    accepted,     \* per kind, the rate window of the last attempt accepted:
                  \* its start, the attempts accepted in it and the players
                  \* who made them
    ncmd,         \* player commands issued
    nsent,        \* pieces of the numbered stream the gateway has sent
    dispatched,   \* ids of the numbered envelopes given to
                  \* imc_handle_message so far, in the order of the calls
    sock,         \* bytes the socket has received and recv has not read
    pending,      \* bytes the gateway has written that have not arrived
    errno,        \* errno
    wire_in,      \* payload bytes of the text frames the gateway has written
    got,          \* payload bytes imc_websocket_recv has returned
    nframes,      \* frames the gateway has written byte by byte
    wrote,        \* the last call of imc_websocket_send: data, mask, frame
    shake,        \* the call of imc_websocket_handshake: key, response, ret
    escaped,      \* the call of imc_escape_json: str, the text built, ok
    wire_out      \* the calls of send(): the frame and the bytes accepted

\* the host's players and the channel registry
host == <<online, members>>

\* the rate limiter
limiter == <<rate, last_rate_reset, accepted>>

\* the numbered stream of the gateway
stream == <<nsent, dispatched>>

\* the connection as a stream of bytes
websocket == <<sock, pending, errno, wire_in, got, nframes, wrote, shake, escaped, wire_out>>

vars == <<now, allocated, imc_active, imc_data, buffer, last_loop, nopen, inq,
          op, failed_reconnects, ping_wait, cmds, rate, last_rate_reset,
          online, members, accepted, ncmd, nsent, dispatched, sock, pending,
          errno, wire_in, got, nframes, wrote, shake, escaped, wire_out>>

(* ---------------- the machine a handler works on ---------------------- *)
\* d: *imc_data, buf: buffer contents, nopen: open descriptors,
\* clock: time(NULL), sent: envelopes written to the socket by this handler,
\* in the order written,
\* connects: calls of imc_websocket_connect by this handler,
\* handled: envelope types given to imc_handle_message by this handler,
\* peak: the most descriptors open at once during this handler,
\* rate, last_rate_reset: the statics, online, members: the host's players
\* and the channel's members, delivered: lines shown to players by this
\* handler, history: entries given to imc_add_history by this handler,
\* granted, refused: the kinds imc_check_rate_limit let through and turned
\* down for this handler, lines: the lines given to imc_handle_message by
\* this handler, failed: the envelopes this handler gave to
\* imc_websocket_send without success
Machine(d, buf, n, t) ==
    [d |-> d, buf |-> buf, nopen |-> n, clock |-> t, sent |-> <<>>, connects |-> 0,
     handled |-> <<>>, peak |-> n, rate |-> rate,
     last_rate_reset |-> last_rate_reset, online |-> online,
     members |-> members, delivered |-> <<>>, history |-> <<>>,
     granted |-> <<>>, refused |-> <<>>, lines |-> <<>>, failed |-> <<>>]

(* ---------------- the host and the registries --------------------------- *)
\* the players of the host, in the order of its character_list
PlayerOrder == <<"Bob", "Carol">>

\* the host's character_list: the players that are logged in
character_list(m) == SelectSeq(PlayerOrder, LAMBDA p : p \in m.online)

\* the host's get_char_vis_world: the player of that name, NULL if none is
\* logged in
get_char_vis_world(m, name) == IF name \in m.online THEN name ELSE NULL

\* imc_is_on_channel
imc_is_on_channel(m, channel, name) ==
    channel = ChannelName /\ name \in m.members

\* send_to_char and the IMC_SEND_*_COLOR macros: the line, without its
\* "\r\n", is shown to player ch
Deliver(m, ch, line, style) ==
    [m EXCEPT !.delivered =
        Append(@, [to |-> ch, line |-> line, style |-> style])]

\* imc_add_history
imc_add_history(m, type, from, to, message) ==
    [m EXCEPT !.history =
        Append(@, [type |-> type, from |-> from, to |-> to,
                   message |-> message])]

\* socket() returned a descriptor for the gateway connection
OpenSocket(m) ==
    [m EXCEPT !.nopen = @ + 1, !.d.socket = GatewayFd,
              !.peak = IF m.nopen + 1 > @ THEN m.nopen + 1 ELSE @]

CloseSocket(m) ==
    [m EXCEPT !.nopen = @ - 1, !.d.socket = -1]

\* imc_disconnect
imc_disconnect(m) ==
    LET c == IF m.d.socket >= 0 THEN CloseSocket(m) ELSE m
    IN [c EXCEPT !.d.state = IMC_DISCONNECTED,
                 !.d.buflen = 0,
                 !.buf = <<>>,
                 !.d.connect_time = m.clock]

\* imc_send_message: ok is the result of imc_websocket_send (FALSE: < 0)
imc_send_message(m, env, ok) ==
    IF m.d.socket < 0 THEN m
    ELSE IF ok THEN [m EXCEPT !.sent = Append(@, env)]
    ELSE imc_disconnect([m EXCEPT !.failed = Append(@, env)])

\* imc_authenticate: the machine after the call and the value returned
imc_authenticate(m, o) ==
    IF m.d.socket < 0 \/ o = "auth_null" THEN [m |-> m, ret |-> FALSE]
    ELSE [m |-> [imc_send_message(m, imc_create_auth(m.clock), o # "send_fail")
                    EXCEPT !.d.state = IMC_AUTHENTICATING],
          ret |-> TRUE]

\* imc_connect, the branch where imc_websocket_connect returned -1
ConnectFailed(m, o) ==
    [m EXCEPT !.d.socket = -1, !.d.state = IMC_DISCONNECTED,
              !.clock = @ + Elapsed(o)]

\* HandshakeFailed without its close(): the descriptor stays open
HandshakeFailed_leak(m, o) ==
    [m EXCEPT !.d.socket = -1, !.d.state = IMC_DISCONNECTED,
              !.clock = @ + Elapsed(o)]

\* imc_connect, the branch where imc_websocket_handshake returned FALSE
HandshakeFailed(m, o) ==
    [m EXCEPT !.nopen = @ - 1, !.d.socket = -1, !.d.state = IMC_DISCONNECTED,
              !.clock = @ + Elapsed(o)]

\* imc_connect: the machine after the call and the value returned
imc_connect(m, o) ==
    LET m0 == IF m.d.socket >= 0 THEN [m EXCEPT !.nopen = @ - 1] ELSE m
        m1 == [m0 EXCEPT !.connects = @ + 1]
    IN IF o \in {"refused", "timeout"}
       THEN [m |-> ConnectFailed(m1, o), ret |-> IMC_ERR_NETWORK]
       ELSE
       LET m2 == OpenSocket(m1)
       IN IF o \in {"hs_fail", "hs_timeout"}
          THEN [m |-> HandshakeFailed(m2, o), ret |-> IMC_ERR_NETWORK]
          ELSE
          LET m3 == [m2 EXCEPT !.d.state = IMC_CONNECTED,
                               !.d.connect_time = m2.clock,
                               !.d.buflen = 0,
                               !.buf = <<>>]
              a == imc_authenticate(m3, o)
          IN IF ~a.ret
             THEN [m |-> imc_disconnect(a.m), ret |-> IMC_ERR_AUTH_FAILED]
             ELSE [m |-> a.m, ret |-> IMC_ERR_NONE]

\* imc_reconnect, the test that gives up
GivesUp(attempts) == attempts > IMC_MAX_RECONNECTS

\* imc_reconnect
imc_reconnect(m, o) ==
    LET m1 == [m EXCEPT !.d.reconnect_attempts = @ + 1]
    IN IF GivesUp(m1.d.reconnect_attempts) THEN m1
       ELSE LET r == imc_connect(m1, o)
            IN IF r.ret >= 0
               THEN [r.m EXCEPT !.d.reconnect_attempts = 0]
               ELSE r.m


\* imc_handle_message, case IMC_MSG_TELL
HandleTell(h, from_mud, from_user, to_user, payload) ==
    LET message == imc_json_get_string(payload, "payload.message")
        ch == get_char_vis_world(h, to_user)
    IN IF message # NULL /\ to_user # NULL /\ ch # NULL
       THEN imc_add_history(
              Deliver(h, ch,
                      (IF from_user # NULL THEN from_user ELSE "Someone")
                        \o "@"
                        \o (IF from_mud # NULL THEN from_mud ELSE "Unknown")
                        \o " tells you: " \o message,
                      "tell"),
              "tell", from_user \o "@" \o from_mud, to_user, message)
       ELSE h

\* the line of imc_handle_message's case IMC_MSG_CHANNEL for an action
ChannelLine(channel, message, action, from_user, from_mud) ==
    CASE action = "join" ->
           "[" \o channel \o "] " \o from_user \o "@" \o from_mud
             \o " has joined the channel."
      [] action = "leave" ->
           "[" \o channel \o "] " \o from_user \o "@" \o from_mud
             \o " has left the channel."
      [] OTHER ->
           "[" \o channel \o "] " \o from_user \o "@" \o from_mud
             \o ": " \o message

\* imc_handle_message, case IMC_MSG_CHANNEL, the loop over character_list
RECURSIVE Broadcast(_, _, _, _)
Broadcast(h, list, channel, line) ==
    IF list = <<>> THEN h
    ELSE Broadcast(IF imc_is_on_channel(h, channel, Head(list))
                   THEN Deliver(h, Head(list), line, "channel")
                   ELSE h,
                   Tail(list), channel, line)

\* imc_handle_message, case IMC_MSG_CHANNEL
HandleChannel(h, from_mud, from_user, payload) ==
    LET channel == imc_json_get_string(payload, "payload.channel")
        message == imc_json_get_string(payload, "payload.message")
        action == imc_json_get_string(payload, "payload.action")
    IN IF channel # NULL /\ message # NULL
       THEN Broadcast(h, character_list(h), channel,
                      ChannelLine(channel, message, action, from_user,
                                  from_mud))
       ELSE h

\* imc_handle_message; payload is the whole line, ok is the result of the
\* imc_websocket_send a handler makes
imc_handle_message(m, type, from_mud, from_user, to_mud, to_user, payload, ok) ==
    LET h == [m EXCEPT !.handled = Append(@, type),
                       !.lines = Append(@, payload)]
    IN CASE type = "tell" -> HandleTell(h, from_mud, from_user, to_user, payload)
         [] type = "channel" -> HandleChannel(h, from_mud, from_user, payload)
         [] type = "pong" -> [h EXCEPT !.d.last_pong = h.clock]
         [] type = "ping" ->
              LET timestamp == imc_json_get_int(payload, "payload.timestamp")
              IN imc_send_message(h, imc_create_pong(h.clock, timestamp), ok)
         [] OTHER -> h

\* the values of "type" that imc_parse_message converts to a message type
KnownTypes ==
    {"tell", "emote", "emoteto", "channel", "who", "finger", "locate",
     "presence", "auth", "ping", "pong", "error"}

\* imc_parse_message
imc_parse_message(m, json, ok) ==
    LET type_str == imc_json_get_string(json, "type")
    IN IF json = <<>> THEN m
       ELSE IF type_str = NULL THEN m
       ELSE IF type_str \notin KnownTypes THEN m
       ELSE imc_handle_message(m, type_str,
                               imc_json_get_string(json, "from.mud"),
                               imc_json_get_string(json, "from.user"),
                               imc_json_get_string(json, "to.mud"),
                               imc_json_get_string(json, "to.user"),
                               json, ok)

\* strlen of a text: a member or brace is EnvLen bytes, a character one
Bytes(text) ==
    Cardinality({i \in 1..Len(text) : text[i].t \notin {"nl", "c"}}) * EnvLen
      + Cardinality({i \in 1..Len(text) : text[i].t \in {"nl", "c"}})

\* the payload of a frame: its text, and a '\n' after it if nl
Payload(f) == f.doc \o (IF f.nl THEN <<NL>> ELSE <<>>)

\* bytes of the payload of a frame
PayloadLen(f) == Bytes(Payload(f))

\* strchr(text, '\n'): the index of the first '\n' at or after i, 0 if
\* there is none
RECURSIVE LineEnd(_, _)
LineEnd(text, i) ==
    IF i > Len(text) THEN 0
    ELSE IF text[i] = NL THEN i
    ELSE LineEnd(text, i + 1)

\* imc_process_input, the loop over the complete lines of the buffer from
\* line_start on: the machine the handlers leave, and line_start after the
\* loop
RECURSIVE ParseLines(_, _, _, _)
ParseLines(m, text, line_start, ok) ==
    LET line_end == LineEnd(text, line_start)
    IN IF line_end = 0 THEN [m |-> m, line_start |-> line_start]
       ELSE ParseLines(IF line_end > line_start
                       THEN imc_parse_message(
                              m, SubSeq(text, line_start, line_end - 1), ok)
                       ELSE m,
                       text, line_end + 1, ok)

\* Consume without the move: the lines handled stay in the buffer
Consume_no_move(p, text) ==
    p.m

\* imc_process_input, the move of the remaining data to the start of the
\* buffer: p is what the loop over the lines of text left
Consume(p, text) ==
    IF p.line_start = 1 THEN p.m
    ELSE LET remaining ==
               p.m.d.buflen - Bytes(SubSeq(text, 1, p.line_start - 1))
         IN [p.m EXCEPT !.d.buflen = remaining,
                        !.buf = IF remaining > 0
                                THEN SubSeq(text, p.line_start, Len(text))
                                ELSE <<>>]

\* imc_process_input after the payload was added to the buffer: its
\* complete lines are handled and the rest is kept
Received(m1, ok) ==
    Consume(ParseLines(m1, m1.buf, 1, ok), m1.buf)

\* imc_process_input after imc_websocket_recv returned bytes_read, with the
\* value errno has then and the text put at the end of the buffer
AfterRecv(m, bytes_read, e, text, ok) ==
    IF bytes_read <= 0
    THEN IF bytes_read < 0 /\ e # "EAGAIN" THEN imc_disconnect(m) ELSE m
    ELSE Received([m EXCEPT !.d.buflen = @ + bytes_read, !.buf = @ \o text],
                  ok)

\* imc_process_input: reads one frame, then handles every complete line.
\* q: frames waiting on the socket; rx: what recv() finds; ok: result of a
\* send made by a handler.  Gives the machine and the frames left.
imc_process_input(m, q, rx, ok) ==
    IF m.d.socket < 0 THEN [m |-> m, q |-> q]
    ELSE IF rx = "error"
    THEN [m |-> AfterRecv(m, -1, "ECONNRESET", <<>>, ok), q |-> q]
    ELSE IF q = <<>> THEN [m |-> AfterRecv(m, -1, "EAGAIN", <<>>, ok), q |-> q]
    ELSE
    LET f == Head(q)
        bufsize == IMC_BUFFER_SIZE - m.d.buflen - 1
    IN IF PayloadLen(f) >= bufsize
       THEN [m |-> imc_disconnect(m), q |-> Tail(q)]
       ELSE [m |-> AfterRecv(m, PayloadLen(f), "", Payload(f), ok),
             q |-> Tail(q)]

(* ---------------- WebSocket frames (websocket.c) ----------------------- *)
WS_OPCODE_TEXT == 1
WS_OPCODE_CLOSE == 8
WS_OPCODE_PING == 9
WS_OPCODE_PONG == 10

\* a ^ b for bytes
RECURSIVE Xor(_, _)
Xor(a, b) ==
    IF a = 0 /\ b = 0 THEN 0
    ELSE (((a % 2) + (b % 2)) % 2) + 2 * Xor(a \div 2, b \div 2)

\* data[i] ^ mask[i % 4] for every byte of data (i from 0)
MaskWith(data, mask) ==
    [i \in 1..Len(data) |-> Xor(data[i], mask[((i - 1) % 4) + 1])]

\* recv(sock, buf, n, 0) on the non-blocking socket whose received bytes are
\* s: the value returned, the bytes put in buf, the bytes left on the
\* socket and errno if the call sets it ("" if not)
recv(s, n) ==
    IF n = 0 THEN [ret |-> 0, data |-> <<>>, rest |-> s, err |-> ""]
    ELSE IF s = <<>>
    THEN [ret |-> -1, data |-> <<>>, rest |-> s, err |-> "EAGAIN"]
    ELSE IF n < 0 \/ n >= Len(s)
    THEN [ret |-> Len(s), data |-> s, rest |-> <<>>, err |-> ""]
    ELSE [ret |-> n, data |-> SubSeq(s, 1, n), rest |-> SubSeq(s, n + 1, Len(s)),
          err |-> ""]

\* what imc_websocket_recv returns: the value, the bytes it leaves in
\* buffer[0..ret) for its caller, the bytes left on the socket and errno if
\* a call of recv set it
Returns(ret, data, rest, err) ==
    [ret |-> ret, data |-> data, rest |-> rest, err |-> err]

\* imc_websocket_recv after recv gave the payload p: unmasking and the
\* control frames
RecvPayload(header, masked, mask, p) ==
    IF p.ret <= 0 THEN Returns(p.ret, <<>>, p.rest, p.err)
    ELSE IF header[1] % 16 = WS_OPCODE_CLOSE
    THEN Returns(-1, <<>>, p.rest, "")
    ELSE IF header[1] % 16 \in {WS_OPCODE_PING, WS_OPCODE_PONG}
    THEN Returns(0, <<>>, p.rest, "")
    ELSE Returns(p.ret, IF masked THEN MaskWith(p.data, mask) ELSE p.data,
                 p.rest, "")

\* imc_websocket_recv after recv gave the mask k (masked frames only): the
\* test of the buffer size and the read of the payload
RecvMask(header, payload_len, masked, k, bufsize) ==
    IF masked /\ k.ret < 4 THEN Returns(0, <<>>, k.rest, k.err)
    ELSE IF payload_len >= bufsize THEN Returns(-1, <<>>, k.rest, "")
    ELSE RecvPayload(header, masked, k.data, recv(k.rest, payload_len))

\* imc_websocket_recv once the payload length is known, with s left on the
\* socket
RecvBody(header, payload_len, s, bufsize) ==
    RecvMask(header, payload_len, header[2] >= 128,
             IF header[2] >= 128 THEN recv(s, 4)
             ELSE [ret |-> 0, data |-> <<>>, rest |-> s, err |-> ""],
             bufsize)

\* the int that imc_websocket_recv makes of the last four bytes of a 64-bit
\* length
Int32(b) ==
    (((IF b[1] >= 128 THEN b[1] - 256 ELSE b[1]) * 256 + b[2]) * 256 + b[3])
      * 256 + b[4]

\* imc_websocket_recv after recv gave the extended length e of want bytes
RecvLength(header, want, e, bufsize) ==
    IF e.ret < want THEN Returns(0, <<>>, e.rest, e.err)
    ELSE RecvBody(header,
                  IF want = 2 THEN e.data[1] * 256 + e.data[2]
                  ELSE Int32(SubSeq(e.data, 5, 8)),
                  e.rest, bufsize)

\* imc_websocket_recv after recv gave the basic header h
RecvHeader(h, bufsize) ==
    IF h.ret <= 0 THEN Returns(h.ret, <<>>, h.rest, h.err)
    ELSE IF h.ret < 2 THEN Returns(0, <<>>, h.rest, "")
    ELSE IF h.data[2] % 128 = 126
    THEN RecvLength(h.data, 2, recv(h.rest, 2), bufsize)
    ELSE IF h.data[2] % 128 = 127
    THEN RecvLength(h.data, 8, recv(h.rest, 8), bufsize)
    ELSE RecvBody(h.data, h.data[2] % 128, h.rest, bufsize)

\* imc_websocket_recv on the socket whose received bytes are s; rx "error":
\* the first recv fails with a socket error
imc_websocket_recv(s, bufsize, rx) ==
    IF rx = "error" THEN Returns(-1, <<>>, s, "ECONNRESET")
    ELSE RecvHeader(recv(s, 2), bufsize)

\* the length of a payload as a server writes it: in 7 bits up to 125, as
\* 126 and a 16-bit length from 126 on
LengthBytes(n) ==
    IF n <= 125 THEN <<n>> ELSE <<126, n \div 256, n % 256>>

\* the bytes of a frame as a server writes it: FIN and the opcode, the
\* length, the mask if there is one and the payload
FrameBytes(opcode, mask, payload) ==
    IF mask = <<>>
    THEN <<128 + opcode>> \o LengthBytes(Len(payload)) \o payload
    ELSE <<128 + opcode>>
           \o [LengthBytes(Len(payload)) EXCEPT ![1] = 128 + @]
           \o mask \o MaskWith(payload, mask)

\* frame[0] of every frame imc_websocket_send writes: FIN=1, opcode=text
TextFrame == 129

(* ---------------- the opening handshake (websocket.c) ------------------ *)
\* HTTP text is the sequence of its words: a version, a status code, a
\* header name or the prefix before it, a key or an accept value is one
\* word, and so is each of ":", " " and the end of a line

\* generate_websocket_key: the base64 text of 16 bytes from rand()
Keys == {"dGhlIHNhbXBsZSBub25jZQ==", "AAECAwQFBgcICQoLDA0ODw=="}

\* calculate_accept_hash: base64 of the SHA-1 of the key followed by
\* WS_MAGIC_STRING
calculate_accept_hash(key) ==
    CASE key = "dGhlIHNhbXBsZSBub25jZQ==" -> "s3pPLMBiTxaQ9kYGzzhZRbK+xOo="
      [] key = "AAECAwQFBgcICQoLDA0ODw==" -> "Bz3qJYTGdOe8gUSpLosEdiLKDrk="

\* strncmp(text, pat, length of pat) == 0
StartsWith(text, pat) ==
    Len(text) >= Len(pat) /\ SubSeq(text, 1, Len(pat)) = pat

\* strstr(text, pat) != NULL
strstr(text, pat) ==
    \E i \in 0..(Len(text) - Len(pat)) :
       SubSeq(text, i + 1, i + Len(pat)) = pat

\* no call of imc_websocket_handshake yet
NoShake == [key |-> "", response |-> [code |-> "", headers |-> <<>>],
            ret |-> FALSE]

\* a header line of a response
HeaderLine(h) == h.name \o <<":">> \o h.sep \o h.value \o <<"CRLF">>

RECURSIVE HeaderLines(_)
HeaderLines(headers) ==
    IF headers = <<>> THEN <<>>
    ELSE HeaderLine(Head(headers)) \o HeaderLines(Tail(headers))

\* the text of a response as recv puts it in the buffer
ResponseText(response) ==
    <<"HTTP/1.1", " ", response.code, " ", "reason", "CRLF">>
      \o HeaderLines(response.headers) \o <<"CRLF">>

\* imc_websocket_handshake where the request went out with key and the text
\* of the response was read: the tests of the status (253) and of the
\* accept header (262-270)
imc_websocket_handshake(key, text) ==
    IF ~StartsWith(text, <<"HTTP/1.1", " ", "101">>) THEN FALSE
    ELSE strstr(text, <<"Sec-WebSocket-Accept", ":", " ",
                        calculate_accept_hash(key)>>)

\* imc_websocket_send with the length test of the 7-bit form off by one: a
\* payload of 126 bytes is written with its length in frame[1]
imc_websocket_send_7bit(data, mask) ==
    LET data_len == Len(data)
    IN (IF data_len <= 126
        THEN <<TextFrame, 128 + data_len>>
        ELSE IF data_len < 65536
        THEN <<TextFrame, 128 + 126, (data_len \div 256) % 256,
               data_len % 256>>
        ELSE <<TextFrame, 128 + 127, 0, 0, 0, 0,
               (data_len \div 16777216) % 256, (data_len \div 65536) % 256,
               (data_len \div 256) % 256, data_len % 256>>)
       \o mask \o MaskWith(data, mask)

\* imc_websocket_send: the frame it builds for data with the mask that
\* rand() gave
imc_websocket_send(data, mask) ==
    LET data_len == Len(data)
    IN (IF data_len < 126
        THEN <<TextFrame, 128 + data_len>>
        ELSE IF data_len < 65536
        THEN <<TextFrame, 128 + 126, (data_len \div 256) % 256,
               data_len % 256>>
        ELSE <<TextFrame, 128 + 127, 0, 0, 0, 0,
               (data_len \div 16777216) % 256, (data_len \div 65536) % 256,
               (data_len \div 256) % 256, data_len % 256>>)
       \o mask \o MaskWith(data, mask)

\* the statics as the program starts
InitialRate ==
    [last_tell_time |-> 0, last_channel_time |-> 0, last_who_time |-> 0,
     tells_this_minute |-> 0, channels_this_minute |-> 0,
     who_this_minute |-> 0]

\* imc_check_rate_limit with the counter advanced before it is compared: an
\* attempt that is turned down is counted too
imc_check_rate_limit_counts(r, type, t) ==
    CASE type = "tell" ->
           [r |-> [r EXCEPT !.last_tell_time = t,
                            !.tells_this_minute =
                               IF t # r.last_tell_time THEN 1 ELSE @ + 1],
            ret |-> t # r.last_tell_time
                      \/ r.tells_this_minute < IMC_MAX_TELLS_MIN]
      [] type = "channel" ->
           [r |-> [r EXCEPT !.last_channel_time = t,
                            !.channels_this_minute =
                               IF t # r.last_channel_time THEN 1 ELSE @ + 1],
            ret |-> t # r.last_channel_time
                      \/ r.channels_this_minute < IMC_MAX_CHANNELS_MIN]
      [] type = "who" ->
           [r |-> [r EXCEPT !.last_who_time = t,
                            !.who_this_minute =
                               IF t # r.last_who_time THEN 1 ELSE @ + 1],
            ret |-> t # r.last_who_time
                      \/ r.who_this_minute < IMC_MAX_WHO_MIN]
      [] OTHER -> [r |-> r, ret |-> TRUE]

\* imc_check_rate_limit at time t: the statics after the call and the value
\* returned
imc_check_rate_limit(r, type, t) ==
    CASE type = "tell" ->
           LET r1 == IF t # r.last_tell_time
                     THEN [r EXCEPT !.last_tell_time = t,
                                    !.tells_this_minute = 0]
                     ELSE r
           IN IF r1.tells_this_minute >= IMC_MAX_TELLS_MIN
              THEN [r |-> r1, ret |-> FALSE]
              ELSE [r |-> [r1 EXCEPT !.tells_this_minute = @ + 1],
                    ret |-> TRUE]
      [] type = "channel" ->
           LET r1 == IF t # r.last_channel_time
                     THEN [r EXCEPT !.last_channel_time = t,
                                    !.channels_this_minute = 0]
                     ELSE r
           IN IF r1.channels_this_minute >= IMC_MAX_CHANNELS_MIN
              THEN [r |-> r1, ret |-> FALSE]
              ELSE [r |-> [r1 EXCEPT !.channels_this_minute = @ + 1],
                    ret |-> TRUE]
      [] type = "who" ->
           LET r1 == IF t # r.last_who_time
                     THEN [r EXCEPT !.last_who_time = t,
                                    !.who_this_minute = 0]
                     ELSE r
           IN IF r1.who_this_minute >= IMC_MAX_WHO_MIN
              THEN [r |-> r1, ret |-> FALSE]
              ELSE [r |-> [r1 EXCEPT !.who_this_minute = @ + 1],
                    ret |-> TRUE]
      [] OTHER -> [r |-> r, ret |-> TRUE]

\* imc_reset_rate_limits
imc_reset_rate_limits(r) ==
    [r EXCEPT !.tells_this_minute = 0, !.channels_this_minute = 0,
              !.who_this_minute = 0]

\* imc_loop, the test of the reset of the rate limiting counters
RateResetDue(t, last) == t - last >= RateResetInterval

\* imc_loop, the reset of the rate limiting counters after the switch
RateReset(m, t) ==
    IF RateResetDue(t, m.last_rate_reset)
    THEN [m EXCEPT !.rate = imc_reset_rate_limits(@), !.last_rate_reset = t]
    ELSE m

\* imc_loop, the tests of the switch (TimedOut_twice: the timeout test with
\* the limit doubled)
ReconnectDue(t, d) == t - d.connect_time > IMC_RECONNECT_DELAY
TimedOut_twice(t, d) == t - d.connect_time > IMC_TIMEOUT * 2
TimedOut(t, d) == t - d.connect_time > IMC_TIMEOUT
PingDue(t, d) == t - d.last_ping > IMC_PING_INTERVAL
PongLate(t, d) == d.last_pong > 0 /\ t - d.last_pong > IMC_PING_INTERVAL * 2

\* the states of imc_loop's timeout case
TimeoutStates == {IMC_CONNECTING, IMC_AUTHENTICATING}

\* imc_loop, case IMC_AUTHENTICATED, the ping when it is due
SendPing(m, t, okPing) ==
    IF PingDue(t, m.d)
    THEN [imc_send_message(m, imc_create_ping(t), okPing)
            EXCEPT !.d.last_ping = t]
    ELSE m

\* imc_loop, case IMC_AUTHENTICATED, the test of the pong
CheckPong(m, t) == IF PongLate(t, m.d) THEN imc_disconnect(m) ELSE m

\* imc_loop, case IMC_AUTHENTICATED, after imc_process_input left the
\* machine and the frames p
KeepAlive(p, t, okPing) ==
    [m |-> CheckPong(SendPing(p.m, t, okPing), t), q |-> p.q]

\* imc_loop past its early returns, with now = t, the switch on the state:
\* the machine and the frames left on the socket
HandleState(m, t, q, o, rx, okPong, okPing) ==
    CASE m.d.state = IMC_DISCONNECTED ->
           [m |-> IF ReconnectDue(t, m.d) THEN imc_reconnect(m, o) ELSE m,
            q |-> q]
      [] m.d.state \in TimeoutStates ->
           [m |-> IF TimedOut(t, m.d) THEN imc_disconnect(m) ELSE m, q |-> q]
      [] m.d.state = IMC_AUTHENTICATED ->
           KeepAlive(imc_process_input(m, q, rx, okPong), t, okPing)
      [] OTHER -> [m |-> m, q |-> q]

\* imc_loop after its switch left the machine and the frames s
AfterSwitch(s, t) == [m |-> RateReset(s.m, t), q |-> s.q]

\* imc_loop past its early returns, with now = t: the machine and the frames
\* left on the socket
imc_loop(m, t, q, o, rx, okPong, okPing) ==
    AfterSwitch(HandleState(m, t, q, o, rx, okPong, okPing), t)

(* ---------------- player commands (imc_commands.c) ---------------------- *)
\* IMC_IS_CONNECTED (with imc_data NULL the machine holds the fields of
\* InitialData, whose state is IMC_DISCONNECTED)
IMC_IS_CONNECTED_always(m) == TRUE
IMC_IS_CONNECTED(m) == m.d.state = IMC_AUTHENTICATED

\* send_to_char of a plain line
Reply(m, ch, line) == Deliver(m, ch, line, "plain")

NotConnected == "MudVault Mesh is not connected."

\* what a call of imc_check_rate_limit that gave c leaves of the machine m:
\* granted lists the kinds that were let through, refused the others
Checked(m, type, c) ==
    [m |-> [m EXCEPT !.rate = c.r,
                     !.granted = IF c.ret THEN Append(@, type) ELSE @,
                     !.refused = IF c.ret THEN @ ELSE Append(@, type)],
     ret |-> c.ret]

\* a call of imc_check_rate_limit by a command: the machine and the value
\* returned
CheckRate(m, type) ==
    Checked(m, type, imc_check_rate_limit(m.rate, type, m.clock))

\* the functions that send one envelope each: the envelope is built and
\* given to imc_send_message
imc_send_tell(m, from_user, to_mud, to_user, message, ok) ==
    imc_send_message(m, CreateEnvelope(m.clock, "tell", from_user, to_mud,
                                       to_user, Str("message", message)), ok)

imc_send_emote(m, from_user, to_mud, action, ok) ==
    imc_send_message(m, CreateEnvelope(m.clock, "emote", from_user, to_mud,
                                       "", Str("action", action)), ok)

imc_send_emoteto(m, from_user, to_mud, to_user, action, ok) ==
    imc_send_message(m, CreateEnvelope(m.clock, "emoteto", from_user, to_mud,
                                       to_user, Str("action", action)), ok)

imc_send_who_request(m, to_mud, ok) ==
    imc_send_message(m, CreateEnvelope(m.clock, "who", "", to_mud, "", <<>>),
                     ok)

imc_send_finger_request(m, to_mud, to_user, ok) ==
    imc_send_message(m, CreateEnvelope(m.clock, "finger", "", to_mud, to_user,
                                       <<>>), ok)

imc_send_locate_request(m, user, ok) ==
    imc_send_message(m, CreateEnvelope(m.clock, "locate", "", "*", "",
                                       Str("user", user)), ok)

imc_send_channel_message(m, from_user, channel, message, ok) ==
    imc_send_message(m, CreateEnvelope(m.clock, "channel", from_user, "*", "",
                                       Str("channel", channel)
                                         \o Str("message", message)), ok)

\* imc_join_channel: the player joins the local member set and the gateway
\* is told
imc_join_channel(m, channel, name, ok) ==
    imc_send_message([m EXCEPT !.members = @ \cup {name}],
                     CreateEnvelope(m.clock, "channel", name, "*", "",
                                    Str("channel", channel)
                                      \o Str("action", "join")), ok)

\* imc_leave_channel
imc_leave_channel(m, channel, name, ok) ==
    imc_send_message([m EXCEPT !.members = @ \ {name}],
                     CreateEnvelope(m.clock, "channel", name, "*", "",
                                    Str("channel", channel)
                                      \o Str("action", "leave")), ok)

\* The commands take the player ch and, for what the argument line and the
\* host decide:
\*   can    the IMC_CAN_USE_* test of the command
\*   args   "ok": player Alice@Beta, mud Beta, channel gossip and a message;
\*          "missing": an argument is missing; "noat": the target has no @;
\*          "baduser", "badmud", "badchannel": imc_validate_* rejects
\*   clean  the result of imc_filter_message
\*   ok     the result of imc_websocket_send

\* do_imctell
do_imctell(m, ch, can, args, clean, ok) ==
    IF ~IMC_IS_CONNECTED(m) THEN Reply(m, ch, NotConnected)
    ELSE IF ~can
    THEN Reply(m, ch, "You don't have permission to use imctell.")
    ELSE IF args = "missing"
    THEN Reply(Reply(m, ch, "Usage: imctell <player@mudname> <message>"),
               ch, "Example: imctell john@othermud Hello there!")
    ELSE IF args = "noat"
    THEN Reply(m, ch, "You must specify the target as player@mudname.")
    ELSE IF args = "baduser" THEN Reply(m, ch, "Invalid username format.")
    ELSE IF args = "badmud" THEN Reply(m, ch, "Invalid MUD name format.")
    ELSE
    LET c == CheckRate(m, "tell")
    IN IF ~c.ret
       THEN Reply(c.m, ch, "You are sending tells too quickly. Please wait.")
       ELSE IF IMC_FILTER_PROFANITY /\ ~clean
       THEN Reply(c.m, ch, "Your message contains inappropriate content.")
       ELSE imc_add_history(
              Deliver(imc_send_tell(c.m, ch, "Beta", "Alice", "hi", ok),
                      ch, "You tell Alice@Beta: hi", "tell"),
              "tell", ch, "Alice@Beta", "hi")

\* do_imcemote
do_imcemote(m, ch, can, args, clean, ok) ==
    IF ~IMC_IS_CONNECTED(m) THEN Reply(m, ch, NotConnected)
    ELSE IF args = "missing"
    THEN Reply(Reply(m, ch, "Usage: imcemote <mudname> <action>"),
               ch, "Example: imcemote othermud waves hello")
    ELSE IF args = "badmud" THEN Reply(m, ch, "Invalid MUD name format.")
    ELSE Deliver(imc_send_emote(m, ch, "Beta", "waves", ok), ch,
                 "You emote to Beta: " \o ch \o " waves", "emote")

\* do_imcemoteto
do_imcemoteto(m, ch, can, args, clean, ok) ==
    IF ~IMC_IS_CONNECTED(m) THEN Reply(m, ch, NotConnected)
    ELSE IF args = "missing"
    THEN Reply(Reply(m, ch, "Usage: imcemoteto <player@mudname> <action>"),
               ch, "Example: imcemoteto john@othermud waves at")
    ELSE IF args = "noat"
    THEN Reply(m, ch, "You must specify the target as player@mudname.")
    ELSE Deliver(imc_send_emoteto(m, ch, "Beta", "Alice", "waves at", ok), ch,
                 "You emote to Alice@Beta: " \o ch \o " waves at Alice",
                 "emote")

\* do_imcwho
do_imcwho(m, ch, can, args, clean, ok) ==
    IF ~IMC_IS_CONNECTED(m) THEN Reply(m, ch, NotConnected)
    ELSE IF ~can
    THEN Reply(m, ch, "You don't have permission to use imcwho.")
    ELSE IF args = "missing"
    THEN Reply(Reply(m, ch, "Usage: imcwho <mudname>"),
               ch, "Use 'imclist' to see available MUDs.")
    ELSE IF args = "badmud" THEN Reply(m, ch, "Invalid MUD name format.")
    ELSE
    LET c == CheckRate(m, "who")
    IN IF ~c.ret
       THEN Reply(c.m, ch,
                  "You are requesting who lists too quickly. Please wait.")
       ELSE Reply(imc_send_who_request(c.m, "Beta", ok), ch,
                  "Requesting who list from Beta...")

\* do_imcfinger
do_imcfinger(m, ch, can, args, clean, ok) ==
    IF ~IMC_IS_CONNECTED(m) THEN Reply(m, ch, NotConnected)
    ELSE IF ~can
    THEN Reply(m, ch, "You don't have permission to use imcfinger.")
    ELSE IF args = "missing"
    THEN Reply(m, ch, "Usage: imcfinger <player@mudname>")
    ELSE IF args = "noat"
    THEN Reply(m, ch, "You must specify the target as player@mudname.")
    ELSE IF args \in {"baduser", "badmud"}
    THEN Reply(m, ch, "Invalid username or MUD name format.")
    ELSE Reply(imc_send_finger_request(m, "Beta", "Alice", ok), ch,
               "Requesting information about Alice@Beta...")

\* do_imclocate
do_imclocate(m, ch, can, args, clean, ok) ==
    IF ~IMC_IS_CONNECTED(m) THEN Reply(m, ch, NotConnected)
    ELSE IF args = "missing" THEN Reply(m, ch, "Usage: imclocate <playername>")
    ELSE IF args = "baduser" THEN Reply(m, ch, "Invalid username format.")
    ELSE Reply(imc_send_locate_request(m, "Alice", ok), ch,
               "Searching for Alice across all connected MUDs...")

\* do_channel
do_channel(m, ch, can, args, clean, ok) ==
    IF ~IMC_IS_CONNECTED(m) THEN Reply(m, ch, NotConnected)
    ELSE IF ~can
    THEN Reply(m, ch, "You don't have permission to use channels.")
    ELSE IF args = "missing"
    THEN Reply(Reply(m, ch, "Usage: channel <channel> <message>"),
               ch, "Example: channel gossip Hello everyone!")
    ELSE IF args = "badchannel"
    THEN Reply(m, ch, "Invalid channel name format.")
    ELSE IF ~imc_is_on_channel(m, ChannelName, ch)
    THEN Reply(m, ch, "You are not on channel '" \o ChannelName
                        \o "'. Use 'chjoin " \o ChannelName \o "' first.")
    ELSE
    LET c == CheckRate(m, "channel")
    IN IF ~c.ret
       THEN Reply(c.m, ch,
              "You are sending channel messages too quickly. Please wait.")
       ELSE IF IMC_FILTER_PROFANITY /\ ~clean
       THEN Reply(c.m, ch, "Your message contains inappropriate content.")
       ELSE Deliver(imc_send_channel_message(c.m, ch, ChannelName, "hello",
                                             ok),
                    ch, "[" \o ChannelName \o "] " \o ch \o ": hello",
                    "channel")

\* do_chjoin
do_chjoin(m, ch, can, args, clean, ok) ==
    IF ~IMC_IS_CONNECTED(m) THEN Reply(m, ch, NotConnected)
    ELSE IF ~can
    THEN Reply(m, ch, "You don't have permission to use channels.")
    ELSE IF args = "missing"
    THEN Reply(Reply(m, ch, "Usage: chjoin <channel>"),
               ch, "Use 'channels' to see available channels.")
    ELSE IF args = "badchannel"
    THEN Reply(m, ch, "Invalid channel name format.")
    ELSE IF imc_is_on_channel(m, ChannelName, ch)
    THEN Reply(m, ch, "You are already on channel '" \o ChannelName \o "'.")
    ELSE Deliver(imc_join_channel(m, ChannelName, ch, ok), ch,
                 "You have joined channel '" \o ChannelName \o "'.", "info")

\* do_chleave
do_chleave(m, ch, can, args, clean, ok) ==
    IF ~IMC_IS_CONNECTED(m) THEN Reply(m, ch, NotConnected)
    ELSE IF args = "missing" THEN Reply(m, ch, "Usage: chleave <channel>")
    ELSE IF args = "badchannel"
    THEN Reply(m, ch, "Invalid channel name format.")
    ELSE IF ~imc_is_on_channel(m, ChannelName, ch)
    THEN Reply(m, ch, "You are not on channel '" \o ChannelName \o "'.")
    ELSE Deliver(imc_leave_channel(m, ChannelName, ch, ok), ch,
                 "You have left channel '" \o ChannelName \o "'.", "info")

\* the command table: the commands that send an envelope
CommandNames ==
    {"imctell", "imcemote", "imcemoteto", "imcwho", "imcfinger", "imclocate",
     "channel", "chjoin", "chleave"}

\* the interpreter runs the command named
RunCommand(m, name, ch, can, args, clean, ok) ==
    CASE name = "imctell" -> do_imctell(m, ch, can, args, clean, ok)
      [] name = "imcemote" -> do_imcemote(m, ch, can, args, clean, ok)
      [] name = "imcemoteto" -> do_imcemoteto(m, ch, can, args, clean, ok)
      [] name = "imcwho" -> do_imcwho(m, ch, can, args, clean, ok)
      [] name = "imcfinger" -> do_imcfinger(m, ch, can, args, clean, ok)
      [] name = "imclocate" -> do_imclocate(m, ch, can, args, clean, ok)
      [] name = "channel" -> do_channel(m, ch, can, args, clean, ok)
      [] name = "chjoin" -> do_chjoin(m, ch, can, args, clean, ok)
      [] name = "chleave" -> do_chleave(m, ch, can, args, clean, ok)

\* do_imcreconnect without the reset of the counter
do_imcreconnect_keeps_count(m) ==
    imc_disconnect(m)

\* do_imcreconnect, for a character of sufficient level
do_imcreconnect(m) ==
    [imc_disconnect(m) EXCEPT !.d.reconnect_attempts = 0]

\* imc_shutdown without its imc_disconnect: the data is freed with the
\* socket left open
imc_shutdown_leaves_open(m) ==
    m

\* imc_shutdown, for imc_data != NULL: what it does to the connection before
\* imc_data is freed
imc_shutdown(m) ==
    imc_disconnect(m)

(* ---------------- state ------------------------------------------------ *)
\* the fields imc_startup sets (calloc zeroes the rest)
InitialData ==
    [socket |-> -1, state |-> IMC_DISCONNECTED, buflen |-> 0,
     last_ping |-> 0, last_pong |-> 0, connect_time |-> 0,
     reconnect_attempts |-> 0]

\* name: the operation; st: the state it found; connects, sent, handled,
\* peak, delivered, history, granted, refused, lines, failed: as in the
\* machine; reset_from: the
\* reconnect_attempts that do_imcreconnect cleared; ch: the player who gave
\* the command
NoOp == [name |-> "none", st |-> IMC_DISCONNECTED, connects |-> 0,
         sent |-> <<>>, handled |-> <<>>, peak |-> 0, reset_from |-> 0,
         delivered |-> <<>>, history |-> <<>>, granted |-> <<>>,
         refused |-> <<>>, lines |-> <<>>, failed |-> <<>>, ch |-> ""]

Done(name, m) ==
    [name |-> name, st |-> imc_data.state, connects |-> m.connects,
     sent |-> m.sent, handled |-> m.handled, peak |-> m.peak, reset_from |-> 0,
     delivered |-> m.delivered, history |-> m.history,
     granted |-> m.granted, refused |-> m.refused, lines |-> m.lines,
     failed |-> m.failed, ch |-> ""]

\* the players logged in to the host
Players == {"Bob", "Carol"}

\* no attempt has been accepted by the rate limiter
NoneAccepted ==
    [kind \in {"tell", "channel", "who"} |->
       [start |-> 0, n |-> 0, users |-> {}]]

Init ==
    /\ now = StartTime
    /\ allocated = FALSE
    /\ imc_active = FALSE
    /\ imc_data = InitialData
    /\ buffer = <<>>
    /\ last_loop = 0
    /\ nopen = 0
    /\ inq = <<>>
    /\ op = NoOp
    /\ failed_reconnects = 0
    /\ ping_wait = 0
    /\ cmds = 0
    /\ rate = InitialRate
    /\ last_rate_reset = 0
    /\ online = Players
    /\ members = {}
    /\ accepted = NoneAccepted
    /\ ncmd = 0
    /\ nsent = 0
    /\ dispatched = <<>>
    /\ sock = <<>>
    /\ pending = <<>>
    /\ errno = "0"
    /\ wire_in = <<>>
    /\ got = <<>>
    /\ nframes = 0
    /\ wrote = [data |-> <<>>, mask |-> <<>>, frame |-> <<>>]
    /\ shake = NoShake
    /\ escaped = [called |-> FALSE, str |-> <<>>, text |-> <<>>, ok |-> TRUE]
    /\ wire_out = <<>>

\* frames of a connection that was closed are gone
Queue(m, q) == IF m.d.socket < 0 \/ m.connects > 0 THEN <<>> ELSE q

\* the oldest ping without a pong after a handler ran
PingWait(m, t) ==
    LET answered == \E i \in 1..Len(m.handled) : m.handled[i] = "pong"
        pinged == \E i \in 1..Len(m.sent) : EnvType(m.sent[i]) = "ping"
        w == IF answered THEN 0 ELSE ping_wait
    IN IF m.d.state # IMC_AUTHENTICATED THEN 0
       ELSE IF pinged /\ w = 0 THEN t ELSE w

(* ---------------- operations ------------------------------------------- *)
\* the inputs a call of imc_loop can consume in the state it finds: the
\* outcome of imc_connect when disconnected, the results of recv and of
\* the two sends when authenticated
TickInputs(d, outcomes) ==
    CASE d.state = IMC_DISCONNECTED ->
           [o : outcomes, rx : {"data"}, okPong : {TRUE}, okPing : {TRUE}]
      [] d.state = IMC_AUTHENTICATED ->
           [o : {"ok"}, rx : RecvResults, okPong : BOOLEAN, okPing : BOOLEAN]
      [] OTHER ->
           [o : {"ok"}, rx : {"data"}, okPong : {TRUE}, okPing : {TRUE}]

\* the ids of the lines that carry one
Ids(lines) ==
    LET numbered == SelectSeq(lines, LAMBDA l : Field(l, <<"id">>) # NULL)
    IN [i \in 1..Len(numbered) |-> Field(numbered[i], <<"id">>)]

\* the count of reconnect attempts is kept up to IMC_MAX_RECONNECTS
Counted(n) == IF n > IMC_MAX_RECONNECTS THEN IMC_MAX_RECONNECTS ELSE n

\* imc_startup; the connect() of imc_websocket_connect on the non-blocking
\* socket, or the call that failed, leaves an errno that is not EAGAIN
Startup ==
    /\ ~allocated
    /\ op.name = "none"
    /\ \E o \in ConnectOutcomes :
         /\ now + Elapsed(o) <= EndTime
         /\ \E r \in {imc_connect(Machine(InitialData, <<>>, nopen, now), o)} :
               /\ imc_data' = r.m.d
               /\ buffer' = r.m.buf
               /\ nopen' = r.m.nopen
               /\ now' = r.m.clock
               /\ op' = Done("startup", r.m)
    /\ allocated' = TRUE
    /\ imc_active' = TRUE
    /\ inq' = <<>>
    /\ errno' = "EINPROGRESS"
    /\ UNCHANGED <<last_loop, failed_reconnects, ping_wait, cmds, host, limiter,
                   ncmd, stream, sock, pending, wire_in, got, nframes,
                   wrote, shake, escaped, wire_out>>

\* imc_loop, where imc_connect ends in one of outcomes and the clock is
\* followed up to end
Loop(outcomes, end) ==
    /\ imc_active
    /\ allocated
    /\ now # last_loop
    /\ \E in \in TickInputs(imc_data, outcomes) :
         /\ now + Elapsed(in.o) <= end
         /\ \E r \in {imc_loop(Machine(imc_data, buffer, nopen, now), now, inq,
                               in.o, in.rx, in.okPong, in.okPing)} :
               /\ imc_data' = r.m.d
               /\ buffer' = r.m.buf
               /\ nopen' = r.m.nopen
               /\ now' = r.m.clock
               /\ inq' = Queue(r.m, r.q)
               /\ op' = Done("tick", r.m)
               /\ failed_reconnects' = Counted(failed_reconnects + r.m.connects)
               /\ ping_wait' = PingWait(r.m, now)
               /\ rate' = r.m.rate
               /\ last_rate_reset' = r.m.last_rate_reset
               /\ dispatched' = dispatched \o Ids(r.m.lines)
    /\ last_loop' = now
    /\ UNCHANGED <<allocated, imc_active, cmds, host, accepted, ncmd, nsent,
                   websocket>>

\* imc_loop against any gateway
Tick == Loop(ConnectOutcomes, EndTime)

\* imc_loop against a gateway that accepts every connection and handshake
TickAccepted == Loop(AcceptedOutcomes, EndTimeAccepted)

\* the transition of the specification's state table that no code under
\* mudvault_mesh.c makes: in authenticating, an inbound auth envelope moves
\* the state to authenticated, resets the attempts and sets connect_time
AuthAccepted ==
    /\ allocated
    /\ imc_active
    /\ imc_data.state = IMC_AUTHENTICATING
    /\ imc_data.socket >= 0
    /\ inq # <<>>
    /\ EnvType(Head(inq).doc) = "auth"
    /\ imc_data' = [imc_data EXCEPT !.state = IMC_AUTHENTICATED,
                                    !.connect_time = now,
                                    !.reconnect_attempts = 0]
    /\ inq' = Tail(inq)
    /\ op' = [NoOp EXCEPT !.name = "auth_accepted", !.st = imc_data.state,
                          !.handled = <<"auth">>, !.peak = nopen]
    /\ failed_reconnects' = 0
    /\ ping_wait' = 0
    /\ UNCHANGED <<now, allocated, imc_active, buffer, last_loop, nopen, cmds,
                   host, limiter, ncmd, stream, websocket>>

\* a call of imc_loop at time t would find something to do: one of the tests
\* of its switch holds, or a frame waits to be read
Due(t) ==
    CASE imc_data.state = IMC_DISCONNECTED -> ReconnectDue(t, imc_data)
      [] imc_data.state \in TimeoutStates -> TimedOut(t, imc_data)
      [] imc_data.state = IMC_AUTHENTICATED ->
           inq # <<>> \/ PingDue(t, imc_data) \/ PongLate(t, imc_data)
      [] OTHER -> FALSE

\* a call of imc_loop at time t would find something to do in its switch or
\* after it
DueAt(t) == Due(t) \/ RateResetDue(t, last_rate_reset)

\* the first second after now in which imc_loop finds something to do
FirstDue(t) ==
    /\ t > now
    /\ DueAt(t)
    /\ \A u \in now + 1 .. t - 1 : ~DueAt(u)

\* time passes, after the host loop has called imc_loop in this second.  The
\* clock is followed to the second before imc_loop finds something to do and
\* to that second; the calls of imc_loop in the seconds passed over find
\* nothing to do.
Pass(end) ==
    /\ allocated
    /\ imc_active
    /\ last_loop = now
    /\ \E t \in now + 1 .. end :
         /\ \E f \in {t, t + 1} : FirstDue(f)
         /\ now' = t
    /\ UNCHANGED <<allocated, imc_active, imc_data, buffer, last_loop, nopen,
                   inq, op, failed_reconnects, ping_wait, cmds, host, limiter, ncmd, stream, websocket>>

Advance == Pass(EndTime)

AdvanceAccepted == Pass(EndTimeAccepted) /\ ~ENABLED AuthAccepted

\* the envelopes a text holds
Envelopes(text) == Cardinality({i \in 1..Len(text) : text[i] = OpenTok})

\* what the gateway sends when: the auth answer in the second the client
\* connected; a pong, or a ping of its own, in the second the client sent a
\* ping that is still unanswered
Expected(type) ==
    CASE type = "auth" -> imc_data.state = IMC_AUTHENTICATING
                            /\ imc_data.connect_time = now
      [] type = "pong" -> imc_data.state = IMC_AUTHENTICATED /\ ping_wait = now
      [] type = "ping" -> imc_data.state = IMC_AUTHENTICATED /\ ping_wait = now
      [] OTHER -> FALSE

\* the gateway sends a text frame on the open connection
GatewaySend ==
    /\ allocated
    /\ imc_data.socket >= 0
    /\ Len(inq) < MaxInq
    /\ \E f \in Frames :
         /\ Expected(EnvType(f.doc))
         /\ ~f.nl => Envelopes(buffer)
                       + Cardinality({i \in 1..Len(inq) : ~inq[i].nl})
                       < MaxPartial
         /\ inq' = Append(inq, f)
    /\ UNCHANGED <<now, allocated, imc_active, imc_data, buffer, last_loop,
                   nopen, op, failed_reconnects, ping_wait, cmds, host, limiter, ncmd, stream, websocket>>

\* do_imcreconnect by a character of sufficient level (imc_data != NULL)
ReconnectCmd ==
    /\ allocated
    /\ cmds < MaxCmds
    /\ \E m \in {do_imcreconnect(Machine(imc_data, buffer, nopen, now))} :
          /\ imc_data' = m.d
          /\ buffer' = m.buf
          /\ nopen' = m.nopen
          /\ op' = [Done("reconnect", m)
                     EXCEPT !.reset_from = imc_data.reconnect_attempts]
    /\ inq' = <<>>
    /\ failed_reconnects' = 0
    /\ ping_wait' = 0
    /\ cmds' = cmds + 1
    /\ UNCHANGED <<now, allocated, imc_active, last_loop, host, limiter, ncmd, stream, websocket>>

\* imc_shutdown
Shutdown ==
    /\ allocated
    /\ \E m \in {imc_shutdown(Machine(imc_data, buffer, nopen, now))} :
          /\ imc_data' = InitialData
          /\ buffer' = <<>>
          /\ nopen' = m.nopen
          /\ op' = [NoOp EXCEPT !.name = "shutdown", !.st = imc_data.state,
                                !.peak = m.peak]
    /\ imc_active' = FALSE
    /\ allocated' = FALSE
    /\ inq' = <<>>
    /\ ping_wait' = 0
    /\ failed_reconnects' = 0
    /\ members' = {}
    /\ UNCHANGED <<now, last_loop, cmds, online, limiter, ncmd, stream, websocket>>

\* the gateway forwards an envelope to the authenticated client; an envelope
\* of the local MUD is what a player's channel command has just sent
GatewayMessage ==
    /\ allocated
    /\ imc_data.socket >= 0
    /\ imc_data.state = IMC_AUTHENTICATED
    /\ Len(inq) < MaxInq
    /\ \E doc \in MsgDocs :
         /\ Field(doc, <<"from", "mud">>) = IMC_MUD_NAME
              => /\ op.ch = Field(doc, <<"from", "user">>)
                 /\ op.sent # <<>>
                 /\ EnvType(op.sent[1]) = "channel"
         /\ inq' = Append(inq, [doc |-> doc, nl |-> TRUE])
    /\ UNCHANGED <<now, allocated, imc_active, imc_data, buffer, last_loop,
                   nopen, op, failed_reconnects, ping_wait, cmds, host, limiter, ncmd, stream, websocket>>

\* the gateway sends the next pieces of its numbered stream to the
\* authenticated client as the payload of one frame, wherever the pieces
\* end
GatewayStream ==
    /\ allocated
    /\ imc_data.socket >= 0
    /\ imc_data.state = IMC_AUTHENTICATED
    /\ Len(inq) < MaxInq
    /\ \E k \in 1..Len(StreamPieces) - nsent :
         /\ inq' = Append(inq, [doc |-> StreamText(nsent + 1, nsent + k),
                                nl |-> FALSE])
         /\ nsent' = nsent + k
    /\ UNCHANGED <<now, allocated, imc_active, imc_data, buffer, last_loop,
                   nopen, op, failed_reconnects, ping_wait, cmds, host,
                   limiter, ncmd, dispatched, websocket>>

\* the frames the gateway writes byte by byte: text frames without and
\* with a mask, a close frame without and with a status code, a ping and a
\* pong
WsFrames ==
    [opcode : {WS_OPCODE_TEXT}, mask : {<<>>},
     payload : {<<>>, <<97>>, <<97, 10>>}]
    \cup [opcode : {WS_OPCODE_TEXT}, mask : {<<1, 2, 3, 4>>},
          payload : {<<97, 10>>}]
    \cup [opcode : {WS_OPCODE_CLOSE}, mask : {<<>>},
          payload : {<<>>, <<3, 232>>}]
    \cup [opcode : {WS_OPCODE_PING, WS_OPCODE_PONG}, mask : {<<>>},
          payload : {<<97>>}]

\* the gateway writes a frame to the authenticated client
GatewayFrame ==
    /\ allocated
    /\ imc_data.socket >= 0
    /\ imc_data.state = IMC_AUTHENTICATED
    /\ nframes < MaxFrames
    /\ \E f \in WsFrames :
         /\ pending' = pending \o FrameBytes(f.opcode, f.mask, f.payload)
         /\ wire_in' = IF f.opcode = WS_OPCODE_TEXT
                       THEN wire_in \o f.payload ELSE wire_in
    /\ nframes' = nframes + 1
    /\ UNCHANGED <<now, allocated, imc_active, imc_data, buffer, last_loop,
                   nopen, inq, op, failed_reconnects, ping_wait, cmds, host,
                   limiter, ncmd, stream, sock, errno, got, wrote, shake, escaped, wire_out>>

\* bytes the gateway has written arrive: up to MaxPiece of them, or all
Arrive ==
    /\ pending # <<>>
    /\ \E k \in (1..MaxPiece) \cup {Len(pending)} :
         /\ k <= Len(pending)
         /\ sock' = sock \o SubSeq(pending, 1, k)
         /\ pending' = SubSeq(pending, k + 1, Len(pending))
    /\ UNCHANGED <<now, allocated, imc_active, imc_data, buffer, last_loop,
                   nopen, inq, op, failed_reconnects, ping_wait, cmds, host,
                   limiter, ncmd, stream, errno, wire_in, got, nframes,
                   wrote, shake, escaped, wire_out>>

\* the text that bytes are in the receive buffer
TextOf(data) == [i \in 1..Len(data) |-> Chr(data[i])]

\* imc_process_input where imc_websocket_recv gave w and errno was e before
\* the call
ProcessBytes(m, w, e, ok) ==
    IF m.d.socket < 0 THEN m
    ELSE AfterRecv(m, w.ret, IF w.err # "" THEN w.err ELSE e, TextOf(w.data),
                   ok)

\* imc_loop, case IMC_AUTHENTICATED, where imc_websocket_recv gave w
BytesRead(m, t, q, w, e, in) ==
    [m |-> AfterSwitch(KeepAlive([m |-> ProcessBytes(m, w, e, in.okPong),
                                  q |-> q], t, in.okPing), t).m,
     q |-> q, w |-> w]

\* imc_loop in the other states: it reads nothing
BytesKept(r, s) ==
    [m |-> r.m, q |-> r.q, w |-> Returns(0, <<>>, s, "")]

\* imc_loop past its early returns, with now = t, where the socket holds
\* the bytes s: the machine, the frames and what imc_websocket_recv gave
LoopBytes(m, t, q, s, e, in) ==
    IF m.d.state = IMC_AUTHENTICATED
    THEN BytesRead(m, t, q,
                   imc_websocket_recv(s, IMC_BUFFER_SIZE - m.d.buflen - 1,
                                      in.rx),
                   e, in)
    ELSE BytesKept(imc_loop(m, t, q, in.o, in.rx, in.okPong, in.okPing), s)

\* imc_loop with the connection as a stream of bytes; the clock is followed
\* up to end
TickBytes(end) ==
    /\ imc_active
    /\ allocated
    /\ now # last_loop
    /\ \E in \in TickInputs(imc_data, AcceptedOutcomes) :
         /\ now + Elapsed(in.o) <= end
         /\ \E r \in {LoopBytes(Machine(imc_data, buffer, nopen, now), now,
                                inq, sock, errno, in)} :
               /\ imc_data' = r.m.d
               /\ buffer' = r.m.buf
               /\ nopen' = r.m.nopen
               /\ now' = r.m.clock
               /\ inq' = Queue(r.m, r.q)
               /\ op' = Done("tick", r.m)
               /\ failed_reconnects' = Counted(failed_reconnects + r.m.connects)
               /\ ping_wait' = PingWait(r.m, now)
               /\ rate' = r.m.rate
               /\ last_rate_reset' = r.m.last_rate_reset
               /\ dispatched' = dispatched \o Ids(r.m.lines)
               /\ sock' = Queue(r.m, r.w.rest)
               /\ pending' = Queue(r.m, pending)
               /\ errno' = IF r.m.connects > 0 THEN "EINPROGRESS"
                            ELSE IF r.w.err # "" THEN r.w.err ELSE errno
               /\ got' = Queue(r.m, IF r.w.ret > 0 THEN got \o r.w.data
                                     ELSE got)
               /\ wire_in' = Queue(r.m, wire_in)
    /\ last_loop' = now
    /\ UNCHANGED <<allocated, imc_active, cmds, host, accepted, ncmd, nsent,
                   nframes, wrote, shake, escaped, wire_out>>

Next ==
    \/ Startup
    \/ Tick
    \/ Advance
    \/ GatewaySend
    \/ ReconnectCmd
    \/ Shutdown

Spec == Init /\ [][Next]_vars

\* the program completed by the authenticated transition of the
\* specification
NextAuth ==
    \/ Startup
    \/ TickAccepted
    \/ AdvanceAccepted
    \/ GatewaySend
    \/ ReconnectCmd
    \/ Shutdown
    \/ AuthAccepted

SpecAuth == Init /\ [][NextAuth]_vars

\* the rate windows after imc_check_rate_limit let the kinds of granted
\* through: a window is the RateResetInterval seconds that imc_loop leaves
\* between two resets of the counters and is named by the time of the reset
\* that starts it; ch is the player whose attempt it was
Accept(granted, window, ch) ==
    [k \in DOMAIN accepted |->
       IF \E i \in 1..Len(granted) : granted[i] = k
       THEN IF accepted[k].n > 0 /\ accepted[k].start = window
            THEN [start |-> window, n |-> accepted[k].n + 1,
                  users |-> accepted[k].users \cup {ch}]
            ELSE [start |-> window, n |-> 1, users |-> {ch}]
       ELSE accepted[k]]

\* a player who is online gives a command of inputs; max commands are
\* followed
Command(inputs, max) ==
    /\ ncmd < max
    /\ \E c \in inputs :
         /\ c.ch \in online
         /\ \E m \in {RunCommand(Machine(imc_data, buffer, nopen, now), c.name,
                                 c.ch, c.can, c.args, c.clean, c.ok)} :
               /\ imc_data' = m.d
               /\ buffer' = m.buf
               /\ nopen' = m.nopen
               /\ members' = m.members
               /\ rate' = m.rate
               /\ accepted' = Accept(m.granted, last_rate_reset, c.ch)
               /\ op' = [Done(c.name, m) EXCEPT !.ch = c.ch]
               /\ inq' = Queue(m, inq)
               /\ ping_wait' = IF m.d.state # IMC_AUTHENTICATED THEN 0
                               ELSE ping_wait
    /\ ncmd' = ncmd + 1
    /\ UNCHANGED <<now, allocated, imc_active, last_loop, failed_reconnects,
                   cmds, online, last_rate_reset, stream, websocket>>

\* what the argument line of a command can be
ArgLines == {"ok", "missing", "noat", "baduser", "badmud", "badchannel"}

\* any command of the table by any player: well-formed, permitted, clean
\* and written, or failing one of these
CmdInputs ==
    {c \in [name : CommandNames, ch : Players, can : BOOLEAN, args : ArgLines,
            clean : BOOLEAN, ok : BOOLEAN] :
       Cardinality({f \in {"can", "clean", "ok"} : ~c[f]})
         + (IF c.args = "ok" THEN 0 ELSE 1) <= 1}

\* well-formed tells of the players that pass the filter and are written
TellInputs ==
    [name : {"imctell"}, ch : Players, can : {TRUE}, args : {"ok"},
     clean : {TRUE}, ok : {TRUE}]

\* well-formed channel commands that are written
ChannelInputs ==
    [name : {"chjoin", "chleave", "channel"}, ch : Players, can : {TRUE},
     args : {"ok"}, clean : {TRUE}, ok : {TRUE}]

PlayerCommand == Command(CmdInputs, MaxCommands)

TellCommand == Command(TellInputs, MaxTells)

ChannelCommand == Command(ChannelInputs, MaxChannelCmds)

\* a second passes; the host loop has called imc_loop in this second if the
\* client is active
Second(end) ==
    /\ (allocated /\ imc_active) => last_loop = now
    /\ now < end
    /\ now' = now + 1
    /\ UNCHANGED <<allocated, imc_active, imc_data, buffer, last_loop, nopen,
                   inq, op, failed_reconnects, ping_wait, cmds, host, limiter, ncmd, stream, websocket>>

\* imc_loop while players give commands
TickCmd == Loop(AcceptedOutcomes, EndTimeCmd)

SecondCmd == Second(EndTimeCmd) /\ ~ENABLED AuthAccepted

\* the program completed by the authenticated transition, with players
\* who give commands
NextCmd ==
    \/ Startup
    \/ TickCmd
    \/ SecondCmd
    \/ AuthAccepted
    \/ GatewaySend
    \/ PlayerCommand

SpecCmd == Init /\ [][NextCmd]_vars

\* the same program with players who send one tell after another
NextRate ==
    \/ Startup
    \/ TickCmd
    \/ SecondCmd
    \/ AuthAccepted
    \/ GatewaySend
    \/ TellCommand

SpecRate == Init /\ [][NextRate]_vars

\* imc_loop while the gateway forwards messages
TickMsg == Loop(AcceptedOutcomes, EndTimeMsg)

AdvanceMsg == Pass(EndTimeMsg) /\ ~ENABLED AuthAccepted

\* the program completed by the authenticated transition, with a gateway
\* that forwards tells and channel envelopes
NextMsg ==
    \/ Startup
    \/ TickMsg
    \/ AdvanceMsg
    \/ AuthAccepted
    \/ GatewaySend
    \/ GatewayMessage
    \/ ChannelCommand

SpecMsg == Init /\ [][NextMsg]_vars

\* imc_loop while the gateway sends its numbered stream
TickWire == Loop(AcceptedOutcomes, EndTimeWire)

AdvanceWire == Pass(EndTimeWire) /\ ~ENABLED AuthAccepted

\* the program completed by the authenticated transition, with a gateway
\* that sends a numbered stream of envelopes in frames of any size
NextWire ==
    \/ Startup
    \/ TickWire
    \/ AdvanceWire
    \/ AuthAccepted
    \/ GatewaySend
    \/ GatewayStream

SpecWire == Init /\ [][NextWire]_vars

\* the payloads imc_websocket_send is called with: strings of every short
\* length up to MaxShort, and of the lengths on both sides of the two
\* changes of the length form
SendLengths == (0..MaxShort) \cup {125, 126, 127, 65535, 65536}

\* a string of n bytes, none of them 0
SendData(seed, n) == [i \in 1..n |-> ((seed + i) % 255) + 1]

\* the masks that rand() % 256 gives
SendMasks ==
    {<<0, 0, 0, 0>>, <<1, 2, 3, 4>>, <<255, 255, 255, 255>>,
     <<55, 250, 33, 61>>}

\* the call of imc_websocket_send; the long strings are sent with one mask
WsSend ==
    /\ wrote.frame = <<>>
    /\ \E n \in SendLengths, seed \in 0..MaxSeed, mask \in SendMasks :
         /\ n > 127 => (seed = 0 /\ mask = <<55, 250, 33, 61>>)
         /\ wrote' = [data |-> SendData(seed, n), mask |-> mask,
                      frame |-> imc_websocket_send(SendData(seed, n), mask)]
    /\ UNCHANGED <<now, allocated, imc_active, imc_data, buffer, last_loop,
                   nopen, inq, op, failed_reconnects, ping_wait, cmds, host,
                   limiter, ncmd, stream, sock, pending, errno, wire_in, got,
                   nframes, shake, escaped, wire_out>>

\* imc_websocket_send as a function of its argument and the mask
SpecSend == Init /\ [][WsSend]_vars

\* a header of a response: name, the blanks after the colon, value
Header(name, sep, value) == [name |-> name, sep |-> sep, value |-> value]

\* the headers a gateway may answer the key with besides Upgrade: none, the
\* accept of a key, that accept under a lower-case name, without the blank,
\* followed by another character, or under another header's name
AcceptHeaders ==
    {<<>>}
    \cup {<<Header(n, sp, v)>> :
            n \in {<<"Sec-WebSocket-Accept">>, <<"sec-websocket-accept">>,
                   <<"X-", "Sec-WebSocket-Accept">>},
            sp \in {<<" ">>, <<>>},
            v \in {<<calculate_accept_hash(k)>> : k \in Keys}
                  \cup {<<calculate_accept_hash(k), "x">> : k \in Keys}}

\* the responses of a gateway
Responses ==
    [code : {"101", "400"},
     headers : {<<Header(<<"Upgrade">>, <<" ">>, <<"websocket">>)>> \o a :
                  a \in AcceptHeaders}]

\* imc_startup where the gateway accepts the connection and answers the
\* handshake request with a response; sent: the outcome of writing the auth
\* envelope if the handshake is accepted
StartupShake ==
    /\ ~allocated
    /\ op.name = "none"
    /\ \E key \in Keys, response \in Responses, sent \in AcceptedOutcomes :
         \E ret \in {imc_websocket_handshake(key, ResponseText(response))} :
           /\ ret \/ sent = "ok"
           /\ shake' = [key |-> key, response |-> response, ret |-> ret]
           /\ \E r \in {imc_connect(Machine(InitialData, <<>>, nopen, now),
                                     IF ret THEN sent ELSE "hs_fail")} :
                 /\ imc_data' = r.m.d
                 /\ buffer' = r.m.buf
                 /\ nopen' = r.m.nopen
                 /\ now' = r.m.clock
                 /\ op' = Done("startup", r.m)
    /\ allocated' = TRUE
    /\ imc_active' = TRUE
    /\ inq' = <<>>
    /\ errno' = "EINPROGRESS"
    /\ UNCHANGED <<last_loop, failed_reconnects, ping_wait, cmds, host, limiter,
                   ncmd, stream, sock, pending, wire_in, got, nframes,
                   wrote, escaped, wire_out>>

\* imc_loop after the handshake
TickShake == Loop(ConnectOutcomes, EndTimeShake)

SecondShake == Second(EndTimeShake)

\* the program started against a gateway that answers the handshake
NextShake ==
    \/ StartupShake
    \/ TickShake
    \/ SecondShake

SpecShake == Init /\ [][NextShake]_vars

\* the characters of the strings imc_escape_json is called with: a control
\* character without a short form, backspace, newline, the quote, the
\* backslash, letters that follow a backslash in an escape, and DEL
EscapeChars == {1, 8, 10, 31, 34, 92, 97, 110, 117, 127}

\* the strings of up to MaxStr of these characters
Strings == UNION {[1..n -> EscapeChars] : n \in 0..MaxStr}

\* the call of imc_escape_json
JsonEscape ==
    /\ ~escaped.called
    /\ \E str \in Strings : \E r \in imc_escape_json(str) :
         escaped' = [called |-> TRUE, str |-> str, text |-> r.text,
                     ok |-> r.ok]
    /\ UNCHANGED <<now, allocated, imc_active, imc_data, buffer, last_loop,
                   nopen, inq, op, failed_reconnects, ping_wait, cmds, host,
                   limiter, ncmd, stream, sock, pending, errno, wire_in, got,
                   nframes, wrote, shake, wire_out>>

\* imc_escape_json and imc_unescape_json as functions of their argument
SpecJson == Init /\ [][JsonEscape]_vars

\* imc_loop while the gateway writes frames byte by byte
TickRecv == TickBytes(EndTimeRecv)

SecondRecv == Second(EndTimeRecv) /\ ~ENABLED AuthAccepted

\* the gateway answers the auth envelope
GatewayAuth == GatewaySend /\ imc_data.state = IMC_AUTHENTICATING

\* the program completed by the authenticated transition, with the
\* connection as a stream of bytes that arrive in pieces
NextRecv ==
    \/ Startup
    \/ TickRecv
    \/ SecondRecv
    \/ AuthAccepted
    \/ GatewayAuth
    \/ GatewayFrame
    \/ Arrive

SpecRecv == Init /\ [][NextRecv]_vars

\* send() of a frame on the non-blocking socket: -1, or the number of bytes
\* the socket accepted, which may be less than the frame
send(frame) == {-1} \cup (0..Len(frame))

\* imc_send_message of an envelope of up to MaxPayload bytes by an
\* authenticated client: imc_websocket_send builds the frame, gives it to
\* send() and returns what send() returned
SendEnvelope ==
    /\ allocated
    /\ imc_active
    /\ imc_data.state = IMC_AUTHENTICATED
    /\ imc_data.socket >= 0
    /\ Len(wire_out) < MaxSends
    /\ \E n \in 1..MaxPayload, mask \in SendMasks :
         \E frame \in {imc_websocket_send(SendData(0, n), mask)} :
           \E bytes_sent \in send(frame) :
             /\ wire_out' = Append(wire_out, [frame |-> frame,
                                              bytes_sent |-> bytes_sent])
             /\ \E m \in {imc_send_message(
                             Machine(imc_data, buffer, nopen, now),
                             TextOf(SendData(0, n)), bytes_sent >= 0)} :
                   /\ imc_data' = m.d
                   /\ buffer' = m.buf
                   /\ nopen' = m.nopen
                   /\ op' = Done("send", m)
    /\ UNCHANGED <<now, allocated, imc_active, last_loop, inq,
                   failed_reconnects, ping_wait, cmds, host, limiter, ncmd,
                   stream, sock, pending, errno, wire_in, got, nframes, wrote,
                   shake, escaped>>

\* the program completed by the authenticated transition, with a client
\* that writes envelopes to a socket that may accept a part of a frame
NextShort ==
    \/ Startup
    \/ GatewayAuth
    \/ AuthAccepted
    \/ SendEnvelope

SpecShort == Init /\ [][NextShort]_vars

TypeOK ==
    /\ now \in StartTime..EndTimeAccepted
    /\ imc_data.socket \in {-1, GatewayFd}
    /\ nopen \in 0..2

(* ---------------- steps and measures used by the properties ------------ *)
\* the step is a call of imc_loop that passed its early returns
IsTick == last_loop' # last_loop

\* the step is the operator's reconnect command
IsCmd == cmds' = cmds + 1

\* the state table's transient states
Transient == {IMC_CONNECTING, IMC_CONNECTED, IMC_AUTHENTICATING}

\* occurrences of an envelope type in a sequence of sent envelopes
Count(type, seq) ==
    Cardinality({i \in 1..Len(seq) : EnvType(seq[i]) = type})

RECURSIVE Power(_, _)
Power(b, e) == IF e = 0 THEN 1 ELSE b * Power(b, e - 1)

\* the delay the reconnect policy gives before the n-th consecutive attempt
Delay(n) ==
    LET raw == IMC_RECONNECT_DELAY * Power(IMC_RETRY_BACKOFF, n - 1)
    IN IF raw > IMC_MAX_RETRY_DELAY THEN IMC_MAX_RETRY_DELAY ELSE raw

\* the call of imc_loop before this one made a connection attempt that failed
AfterFailedAttempt ==
    /\ op.name = "tick"
    /\ op.connects > 0
    /\ imc_data.state = IMC_DISCONNECTED

(* ---------------- C1 ---------------------------------------------------- *)
\* C1: a call of imc_loop in state authenticating that finds the gateway's
\* auth envelope waiting on the socket reads it and leaves the state
\* authenticated, with connect_time set and the reconnect counter reset.
C1_AuthAnswerAuthenticates ==
    [][(/\ IsTick
        /\ imc_data.state = IMC_AUTHENTICATING
        /\ imc_data.socket >= 0
        /\ inq # <<>>
        /\ Head(inq) = [doc |-> GatewayEnvelope("auth"), nl |-> TRUE])
       => (/\ imc_data'.state = IMC_AUTHENTICATED
           /\ imc_data'.connect_time = now
           /\ imc_data'.reconnect_attempts = 0)]_vars

(* ---------------- C2 ---------------------------------------------------- *)
\* C2: a connection attempt that follows a failed attempt starts at least
\* IMC_RECONNECT_DELAY seconds after the failed one started.
C2_RetryAfterDelay ==
    [][(IsTick /\ AfterFailedAttempt /\ op'.connects > 0)
       => now - last_loop >= IMC_RECONNECT_DELAY]_vars

(* ---------------- C3 ---------------------------------------------------- *)
\* C3: the n-th consecutive reconnect attempt starts at least
\* min(IMC_RECONNECT_DELAY * IMC_RETRY_BACKOFF^(n-1), IMC_MAX_RETRY_DELAY)
\* seconds after the failed attempt before it.
C3_BackoffDelay ==
    [][(IsTick /\ AfterFailedAttempt /\ op'.connects > 0)
       => now - last_loop >= Delay(imc_data.reconnect_attempts + 1)]_vars

(* ---------------- C4 ---------------------------------------------------- *)
\* C4: once IMC_MAX_RECONNECTS reconnect attempts have been made without the
\* state becoming authenticated and without an operator reset, no call of
\* imc_loop opens a further connection.
C4_GivesUpAfterMax ==
    [][(IsTick /\ failed_reconnects >= IMC_MAX_RECONNECTS)
       => op'.connects = 0]_vars

(* ---------------- C5 ---------------------------------------------------- *)
\* C5: the reconnect counter decreases only in a step that leaves the state
\* authenticated or that is the operator's reconnect command.
C5_ResetOnlyWhenAuthenticated ==
    [][(allocated /\ allocated'
        /\ imc_data'.reconnect_attempts < imc_data.reconnect_attempts)
       => (imc_data'.state = IMC_AUTHENTICATED \/ IsCmd)]_vars

C7_OneSocket ==
    /\ nopen <= 1
    /\ op.peak <= 1
    /\ (nopen = 1) <=> (allocated /\ imc_data.socket >= 0)

\* a reconnect opened a socket after the operator command closed one
C7_Witness ==
    /\ op.name = "tick"
    /\ op.connects = 1
    /\ nopen = 1
    /\ cmds = 1

C10_TransientTimeout ==
    /\ [][(/\ IsTick
           /\ imc_data.state \in Transient
           /\ now - imc_data.connect_time > IMC_TIMEOUT)
          => (/\ imc_data'.state = IMC_DISCONNECTED
              /\ imc_data'.socket = -1
              /\ nopen' = 0)]_vars
    /\ []((allocated /\ imc_data.state \in Transient /\ last_loop = now)
          => now - imc_data.connect_time <= IMC_TIMEOUT)

\* imc_loop found the state authenticating and left it disconnected
C10_Witness ==
    /\ op.name = "tick"
    /\ op.st = IMC_AUTHENTICATING
    /\ imc_data.state = IMC_DISCONNECTED
    /\ imc_data.socket = -1

(* ---------------- C11 --------------------------------------------------- *)
\* C11: after imc_shutdown, whatever the state it was called in, no gateway
\* socket is open, imc_data is freed and imc_active is false, and every later
\* call of imc_loop returns before its switch: it opens no connection and
\* sends nothing.
C11_ShutdownIsFinal ==
    op.name = "shutdown"
    => (/\ nopen = 0
        /\ ~allocated
        /\ ~imc_active
        /\ ~ENABLED Tick
        /\ ~ENABLED TickAccepted)

\* imc_shutdown was called with the connection open, waiting for the auth
\* answer
C11_Witness ==
    /\ op.name = "shutdown"
    /\ op.st = IMC_AUTHENTICATING
    /\ op.peak = 1
    /\ nopen = 0


(* ---------------- C12 --------------------------------------------------- *)
\* the step is a command of a player
IsPlayerCmd == ncmd' = ncmd + 1

\* the reply of a command that is refused because the client is not
\* connected
Refusal(ch) == <<[to |-> ch, line |-> NotConnected, style |-> "plain"]>>

\* C12: an operation that starts in a state other than authenticated sends
\* nothing but the auth envelope, and sends it only as the one envelope of
\* the connection it has just made; a player command given while the state
\* is not authenticated is refused: it sends nothing, tells the player that
\* the client is not connected, and leaves the connection, the channel
\* members and the rate counters as they were.
C12_AuthFirstAndCommandsRefused ==
    /\ [](op.st # IMC_AUTHENTICATED /\ op.sent # <<>>
            => /\ op.connects = 1
               /\ Len(op.sent) = 1
               /\ EnvType(op.sent[1]) = "auth")
    /\ [][IsPlayerCmd /\ imc_data.state # IMC_AUTHENTICATED
            => /\ op'.sent = <<>>
               /\ op'.delivered = Refusal(op'.ch)
               /\ op'.granted = <<>>
               /\ UNCHANGED <<imc_data, nopen, members, rate>>]_vars

\* a player gave a command that sends an envelope while the connection was
\* open and waiting for the answer to auth, and was refused
C12_Witness ==
    /\ op.name = "imctell"
    /\ op.st = IMC_AUTHENTICATING
    /\ imc_data.socket >= 0
    /\ op.delivered = Refusal("Bob")
    /\ op.sent = <<>>

(* ---------------- C13 --------------------------------------------------- *)
\* C13: every envelope an operation writes to the socket carries the member
\* from.mud with the configured name of the local MUD.
C13_FromMudIsLocal ==
    \A i \in 1..Len(op.sent) :
        Field(op.sent[i], <<"from", "mud">>) = IMC_MUD_NAME

\* a call of imc_loop in the state authenticated wrote a ping
C13_Witness ==
    /\ op.name = "tick"
    /\ op.st = IMC_AUTHENTICATED
    /\ \E i \in 1..Len(op.sent) : EnvType(op.sent[i]) = "ping"

(* ---------------- inbound envelopes: C14 .. C19 ------------------------- *)
\* the step is a call of imc_loop that reads the line doc from the gateway
\* into an empty buffer and leaves the connection up
Handles(doc) ==
    /\ IsTick
    /\ imc_data.state = IMC_AUTHENTICATED
    /\ buffer = <<>>
    /\ inq # <<>>
    /\ Head(inq) = [doc |-> doc, nl |-> TRUE]
    /\ inq' = Tail(inq)
    /\ imc_data'.state = IMC_AUTHENTICATED

\* the envelope is a protocol error: no version, a type outside the type
\* table, or no from.mud
ProtocolError(doc) ==
    \/ Field(doc, <<"version">>) = NULL
    \/ EnvType(doc) \notin KnownTypes
    \/ Field(doc, <<"from", "mud">>) = NULL

\* the deliveries of a sequence that show line to player p
Shown(delivered, p, line) ==
    Cardinality({i \in 1..Len(delivered) :
                   delivered[i].to = p /\ delivered[i].line = line})

\* C14: when the line read is an envelope without version, of unknown type
\* or without from.mud, no handler runs, no line is shown to a player, no
\* history entry is made and the time of the last pong stays.
C14_ProtocolErrorRejected ==
    [][\A doc \in MsgDocs :
         Handles(doc) /\ ProtocolError(doc)
           => /\ op'.handled = <<>>
              /\ op'.delivered = <<>>
              /\ op'.history = <<>>
              /\ imc_data'.last_pong = imc_data.last_pong
              /\ UNCHANGED members]_vars

\* the tell of the first scenario: Alice@Beta to Bob, "hi"
TellAliceBob ==
    Wire("schema", IMC_PROTOCOL_VERSION, "tell", "Beta", "Alice",
         IMC_MUD_NAME, "Bob", Str("message", "hi"))

\* C15: when the tell of Alice@Beta to Bob with the message hi is read while
\* Bob is online, the one line shown is "Alice@Beta tells you: hi", to Bob,
\* and one entry of type tell is added to the history.
C15_TellDelivered ==
    [][Handles(TellAliceBob) /\ "Bob" \in online
         => /\ op'.delivered = <<[to |-> "Bob",
                                  line |-> "Alice@Beta tells you: hi",
                                  style |-> "tell"]>>
            /\ Len(op'.history) = 1
            /\ op'.history[1].type = "tell"]_vars

\* the envelope is the error user-not-found, addressed to mud
UserNotFound(env, mud) ==
    /\ EnvType(env) = "error"
    /\ imc_json_get_string(env, "code") = "user-not-found"
    /\ imc_json_get_string(env, "mud") # NULL
    /\ \E i \in 1..Len(env) :
         env[i].k = "mud" /\ env[i].t = "s" /\ env[i].v = mud

\* C16: when a tell from Alice@Beta to a user who is not online is read, no
\* line is shown to anybody and an error envelope with the code
\* user-not-found is sent to Beta.
C16_TellToAbsentUser ==
    [][\A shape \in Shapes :
         Handles(Wire(shape, IMC_PROTOCOL_VERSION, "tell", "Beta", "Alice",
                      IMC_MUD_NAME, "Eve", Str("message", "hi")))
           /\ "Eve" \notin online
           => /\ op'.delivered = <<>>
              /\ \E i \in 1..Len(op'.sent) : UserNotFound(op'.sent[i], "Beta")
       ]_vars

\* the channel envelope of Dan@Beta with the message hello
ChannelFromDan(shape) ==
    Wire(shape, IMC_PROTOCOL_VERSION, "channel", "Beta", "Dan", "", "",
         Str("channel", ChannelName) \o Str("message", "hello"))

\* C17: when a message of Dan@Beta on the channel is read, the line
\* "[gossip] Dan@Beta: hello" is shown once to every online player who is a
\* local member of the channel, nothing else is shown, and if the channel
\* has a local member one entry is added to the history.
C17_ChannelFanOut ==
    [][\A shape \in Shapes :
         Handles(ChannelFromDan(shape))
           => /\ \A p \in Players :
                   Shown(op'.delivered, p, "[gossip] Dan@Beta: hello")
                     = IF p \in members \cap online THEN 1 ELSE 0
              /\ Len(op'.delivered) = Cardinality(members \cap online)
              /\ members # {} => Len(op'.history) = 1
       ]_vars

\* the channel envelope of the local player Bob with the message hello, as
\* the gateway fans it back
ChannelFromBob(shape) ==
    Wire(shape, IMC_PROTOCOL_VERSION, "channel", IMC_MUD_NAME, "Bob", "", "",
         Str("channel", ChannelName) \o Str("message", "hello"))

\* C18: Bob's channel command showed him his message once; when the
\* envelope comes back from the gateway with from.mud the local MUD and
\* from.user Bob, no line is shown to Bob.
C18_NoSelfEcho ==
    [][\A shape \in Shapes :
         /\ op.name = "channel"
         /\ op.ch = "Bob"
         /\ Len(op.sent) = 1
         /\ Shown(op.delivered, "Bob", "[gossip] Bob: hello") = 1
         /\ Handles(ChannelFromBob(shape))
         => \A i \in 1..Len(op'.delivered) : op'.delivered[i].to # "Bob"
       ]_vars

\* the channel envelope of Dan@Beta with the action join and no message
JoinFromDan(shape) ==
    Wire(shape, IMC_PROTOCOL_VERSION, "channel", "Beta", "Dan", "", "",
         Str("channel", ChannelName) \o Str("action", "join"))

\* C19: when a channel envelope with the action join and no message is read,
\* every online local member of the channel is shown the line that Dan@Beta
\* has joined.
C19_JoinWithoutMessage ==
    [][\A shape \in Shapes :
         Handles(JoinFromDan(shape))
           => \A p \in members \cap online :
                Shown(op'.delivered, p,
                      "[gossip] Dan@Beta has joined the channel.") = 1
       ]_vars

(* ---------------- C20 --------------------------------------------------- *)
\* the cap of a kind
Cap(kind) ==
    CASE kind = "tell" -> IMC_MAX_TELLS_MIN
      [] kind = "channel" -> IMC_MAX_CHANNELS_MIN
      [] kind = "who" -> IMC_MAX_WHO_MIN

\* C20: within one window of RateResetInterval seconds no more attempts of
\* a kind are accepted than the cap of the kind, in whichever seconds of the
\* window they are made.
C20_CapPerWindow ==
    \A kind \in DOMAIN accepted : accepted[kind].n <= Cap(kind)

(* ---------------- C21 --------------------------------------------------- *)
\* the line a command shows when the rate limiter turns it down
TooQuickly(name) ==
    CASE name = "imctell" -> "You are sending tells too quickly. Please wait."
      [] name = "imcwho" ->
           "You are requesting who lists too quickly. Please wait."
      [] name = "channel" ->
           "You are sending channel messages too quickly. Please wait."
      [] OTHER -> ""

\* C21: a command that imc_check_rate_limit turns down leaves the counters
\* of the limiter as they were, writes no envelope, adds nothing to the
\* history and accepts nothing; the one line it shows is the rate limit
\* error, to the player who gave the command.
C21_RejectedAttemptIsFree ==
    [][IsPlayerCmd /\ op'.refused # <<>>
         => /\ rate' = rate
            /\ accepted' = accepted
            /\ op'.sent = <<>>
            /\ op'.history = <<>>
            /\ op'.granted = <<>>
            /\ op'.delivered = <<[to |-> op'.ch, line |-> TooQuickly(op'.name),
                                  style |-> "plain"]>>
            /\ UNCHANGED <<imc_data, nopen, members>>]_vars

\* Bob's tell was turned down after IMC_MAX_TELLS_MIN tells had been
\* accepted in the same second
C21_Witness ==
    /\ op.name = "imctell"
    /\ op.ch = "Bob"
    /\ op.refused = <<"tell">>
    /\ op.st = IMC_AUTHENTICATED
    /\ rate.tells_this_minute = IMC_MAX_TELLS_MIN
    /\ rate.last_tell_time = now

(* ---------------- C22 --------------------------------------------------- *)
\* the players who have had a tell accepted in the rate window that is open
TellUsers ==
    IF accepted["tell"].start = last_rate_reset
    THEN accepted["tell"].users ELSE {}

\* C22: a tell that reaches the rate limiter is let through when no tell of
\* the same player has been accepted in the window yet, however many tells
\* of other players have been accepted in it.
C22_CountersPerUser ==
    [][/\ IsPlayerCmd
       /\ op'.name = "imctell"
       /\ op'.granted \o op'.refused # <<>>
       /\ op'.ch \notin TellUsers
       => op'.refused = <<>>]_vars

(* ---------------- C23 --------------------------------------------------- *)
\* the place of an id in the stream, 0 if it has none
RECURSIVE Place(_, _)
Place(id, i) ==
    IF i > Len(StreamIds) THEN 0
    ELSE IF StreamIds[i] = id THEN i
    ELSE Place(id, i + 1)

\* C23: the envelopes of the stream are given to imc_handle_message in the
\* order of the wire and each at most once, however the stream is cut into
\* frames: the ids dispatched so far are in strictly increasing stream
\* order.
C23_WireOrder ==
    \A i, j \in 1..Len(dispatched) :
        i < j => Place(dispatched[i], 1) < Place(dispatched[j], 1)

\* the three envelopes were dispatched by several reads, the last of which
\* dispatched the second and the third together
C23_Witness ==
    /\ dispatched = StreamIds
    /\ op.name = "tick"
    /\ Len(op.lines) = 2
    /\ buffer = <<>>

(* ---------------- C24 --------------------------------------------------- *)
\* C24: an operation in which the write of an envelope failed leaves the
\* state disconnected and the socket closed, and the envelope is not among
\* those the operation wrote.
C24_FailedWriteDisconnects ==
    op.failed # <<>>
    => /\ imc_data.state = IMC_DISCONNECTED
       /\ imc_data.socket = -1
       /\ nopen = 0
       /\ \A i \in 1..Len(op.failed), j \in 1..Len(op.sent) :
             op.sent[j] # op.failed[i]

(* ---------------- C25 --------------------------------------------------- *)
\* the step is a call of imc_loop that reads the frame f from the gateway
\* into an empty buffer and leaves the connection up
Reads(f) ==
    /\ IsTick
    /\ imc_data.state = IMC_AUTHENTICATED
    /\ buffer = <<>>
    /\ inq # <<>>
    /\ Head(inq) = f
    /\ inq' = Tail(inq)
    /\ imc_data'.state = IMC_AUTHENTICATED

\* C25: a call of imc_loop that reads a text frame with one envelope, with
\* or without a newline after it, gives that envelope to imc_handle_message
\* once and leaves nothing of it in the receive buffer.
C25_OneDispatchPerFrame ==
    [][\A f \in Frames :
         Reads(f) => /\ op'.lines = <<f.doc>>
                     /\ buffer' = <<>>]_vars
\* C26: reading frames from a byte stream that arrives in arbitrary pieces
\* loses nothing: once every byte the gateway wrote on the connection has
\* arrived and has been read, the payload bytes imc_websocket_recv delivered
\* are the payload bytes of the text frames the gateway wrote, in order
C26_PartialReadsLoseNothing ==
    (/\ imc_data.state = IMC_AUTHENTICATED
     /\ imc_data.socket >= 0
     /\ nframes > 0
     /\ pending = <<>>
     /\ sock = <<>>)
    => got = wire_in

\* the only frame the gateway wrote is a close frame and all of it is on
\* the socket
CloseArrived ==
    /\ imc_data.state = IMC_AUTHENTICATED
    /\ imc_data.socket >= 0
    /\ nframes = 1
    /\ pending = <<>>
    /\ \E f \in WsFrames :
         /\ f.opcode = WS_OPCODE_CLOSE
         /\ sock = FrameBytes(f.opcode, f.mask, f.payload)

\* C27: when a close frame of the gateway is on the socket, the next poll
\* of imc_loop leaves the state disconnected and the socket closed,
\* whatever the earlier reads on the socket gave
C27_CloseFrameDisconnects ==
    [][(CloseArrived /\ op'.name = "tick" /\ last_loop' = now)
       => (imc_data'.state = IMC_DISCONNECTED /\ imc_data'.socket < 0)]_vars

\* the only frame the gateway wrote is the control frame f and all of it is
\* on the socket
ControlArrived(f) ==
    /\ imc_data.state = IMC_AUTHENTICATED
    /\ imc_data.socket >= 0
    /\ nframes = 1
    /\ pending = <<>>
    /\ sock = FrameBytes(f.opcode, f.mask, f.payload)

\* C28: the poll of imc_loop that reads a ping control frame writes a pong
\* control frame with the payload of the ping, and the poll that reads a
\* pong control frame runs the liveness handler
C28_PingPongFrames ==
    [][\A f \in WsFrames :
         (ControlArrived(f) /\ op'.name = "tick" /\ last_loop' = now)
         => /\ f.opcode = WS_OPCODE_PING
               => \E i \in 1..Len(op'.sent) :
                     /\ TextFrame % 16 = WS_OPCODE_PONG
                     /\ op'.sent[i] = TextOf(f.payload)
            /\ f.opcode = WS_OPCODE_PONG
               => \E i \in 1..Len(op'.handled) : op'.handled[i] = "pong"]_vars

\* the bytes of the header of a frame before the mask: 2 when the length is
\* in 7 bits, 4 with a 16-bit length, 10 with a 64-bit length
HeaderLen(frame) ==
    IF frame[2] % 128 = 126 THEN 4
    ELSE IF frame[2] % 128 = 127 THEN 10 ELSE 2

\* the number that the bytes b are in big-endian order
RECURSIVE BigEndian(_)
BigEndian(b) ==
    IF b = <<>> THEN 0
    ELSE BigEndian(SubSeq(b, 1, Len(b) - 1)) * 256 + b[Len(b)]

\* C29: the frame imc_websocket_send builds is a masked text frame: first
\* byte 0x81, MASK bit set, the length L in 7 bits when L <= 125, as 126 and
\* 16 bits big-endian when 126 <= L <= 65535, as 127 and 64 bits big-endian
\* when L >= 65536, then the 4 bytes of the mask and the payload with byte i
\* XORed with mask[i mod 4]; unmasking it with the mask gives the payload
C29_MaskedTextFrame ==
    wrote.frame # <<>> =>
      LET frame == wrote.frame
          L == Len(wrote.data)
          h == HeaderLen(frame)
          masked == SubSeq(frame, h + 5, Len(frame))
      IN /\ frame[1] = 129
         /\ frame[2] >= 128
         /\ L <= 125 => frame[2] - 128 = L
         /\ (126 <= L /\ L <= 65535)
            => (frame[2] - 128 = 126 /\ BigEndian(SubSeq(frame, 3, 4)) = L)
         /\ L >= 65536
            => (/\ frame[2] - 128 = 127
                /\ SubSeq(frame, 3, 6) = <<0, 0, 0, 0>>
                /\ BigEndian(SubSeq(frame, 7, 10)) = L)
         /\ SubSeq(frame, h + 1, h + 4) = wrote.mask
         /\ Len(frame) = h + 4 + L
         /\ \A i \in 0..(L - 1) :
               masked[i + 1] = Xor(wrote.data[i + 1], wrote.mask[(i % 4) + 1])
         /\ MaskWith(masked, wrote.mask) = wrote.data

\* a string of 65536 bytes has been written with a mask that changes it
C29_Witness ==
    /\ Len(wrote.data) = 65536
    /\ wrote.frame[2] = 255
    /\ SubSeq(wrote.frame, 15, 18) # SubSeq(wrote.data, 1, 4)

\* the names a server may write the accept header with: header names are
\* not case-sensitive
AcceptNames == {<<"Sec-WebSocket-Accept">>, <<"sec-websocket-accept">>}

\* the response has status 101 and an accept header whose value is the
\* accept of key
ValidResponse(key, response) ==
    /\ response.code = "101"
    /\ \E i \in 1..Len(response.headers) :
         /\ response.headers[i].name \in AcceptNames
         /\ response.headers[i].value = <<calculate_accept_hash(key)>>

\* C30: the handshake succeeds if and only if the response has status 101
\* and the value of its Sec-WebSocket-Accept header is the accept computed
\* from the key of this request; after any other response imc_startup
\* leaves the state disconnected and the socket closed
C30_HandshakeIffAccept ==
    (op.name = "startup" /\ shake.key # "")
    => /\ shake.ret <=> ValidResponse(shake.key, shake.response)
       /\ ~ValidResponse(shake.key, shake.response)
          => (/\ imc_data.state = IMC_DISCONNECTED
              /\ imc_data.socket = -1
              /\ nopen = 0)

\* C31: for every envelope the client emits, looking up the dotted keys
\* gives the values that were emitted for the nested members: from.mud is
\* the name of this MUD, and for the tell of do_imctell to.user is the target
\* and payload.message is the message
C31_DottedLookup ==
    \A i \in 1..Len(op.sent) :
       /\ imc_json_get_string(op.sent[i], "from.mud") = IMC_MUD_NAME
       /\ imc_json_get_string(op.sent[i], "type") = "tell"
          => /\ imc_json_get_string(op.sent[i], "to.user") = "Alice"
             /\ imc_json_get_string(op.sent[i], "payload.message") = "hi"

\* C32: for every string over the characters 1..127 unescaping the escaped
\* string gives the string back, and another string has another escaped
\* form
C32_EscapeRoundTrip ==
    escaped.called
    => /\ escaped.ok
       /\ imc_unescape_json(escaped.text) = escaped.str
       /\ \A other \in Strings :
            other # escaped.str => EscapeText(other) # escaped.text

\* C40: the text imc_escape_json builds for a string of n characters has at
\* most 2 * n characters, so that it fits with its terminator in the
\* 2 * n + 1 bytes allocated
C40_EscapedFits ==
    escaped.called => Len(escaped.text) <= 2 * Len(escaped.str)

\* C33: the connection state and the socket agree in every state: in
\* connected, authenticating and authenticated the socket is open, and with
\* the socket closed the state is disconnected
C33_StateAndSocketAgree ==
    allocated
    => /\ imc_data.state \in {IMC_CONNECTED, IMC_AUTHENTICATING,
                              IMC_AUTHENTICATED}
          => imc_data.socket >= 0
       /\ imc_data.socket = -1 => imc_data.state = IMC_DISCONNECTED

\* C34: the length of the receive buffer stays within 0 and
\* IMC_BUFFER_SIZE - 1, and when a handler has torn the connection down
\* because its pong could not be written, no line after that ping is
\* dispatched in the same call of imc_process_input
C34_BufferLengthInRange ==
    allocated
    => /\ 0 <= imc_data.buflen
       /\ imc_data.buflen <= IMC_BUFFER_SIZE - 1
       /\ (/\ op.name = "tick"
           /\ \E i \in 1..Len(op.failed) : EnvType(op.failed[i]) = "pong")
          => EnvType(op.lines[Len(op.lines)]) = "ping"

\* the client has given up: it is disconnected with more than
\* IMC_MAX_RECONNECTS attempts counted
GivenUp ==
    /\ allocated
    /\ imc_data.state = IMC_DISCONNECTED
    /\ imc_data.reconnect_attempts > IMC_MAX_RECONNECTS

\* C35: reconnect_attempts never exceeds IMC_MAX_RECONNECTS + 1, and once
\* the client has given up a call of imc_loop leaves the counter and the
\* rest of the connection data as they are
C35_CounterBounded ==
    [][/\ allocated'
          => imc_data'.reconnect_attempts <= IMC_MAX_RECONNECTS + 1
       /\ (GivenUp /\ IsTick) => imc_data' = imc_data]_vars

\* C36: liveness is judged per connection: a call of imc_loop does not
\* disconnect for a pong timeout a connection that has lasted no longer
\* than 2 * IMC_PING_INTERVAL: when it leaves such a connection
\* disconnected, the test of the pong timeout was not what fired
C36_LivenessPerConnection ==
    [][(/\ IsTick
        /\ imc_data.state = IMC_AUTHENTICATED
        /\ imc_data.socket >= 0
        /\ now - imc_data.connect_time <= IMC_PING_INTERVAL * 2
        /\ imc_data'.state = IMC_DISCONNECTED)
       => ~PongLate(now, imc_data')]_vars

\* C37: a frame of which send() accepted only a part is the last one
\* written and the connection is torn down: no truncated frame is on the
\* wire of a client that is still connected or is followed by another frame
C37_WholeFrameOrTornDown ==
    \A i \in 1..Len(wire_out) :
       wire_out[i].bytes_sent < Len(wire_out[i].frame)
       => /\ i = Len(wire_out)
          /\ imc_data.socket = -1
          /\ imc_data.state = IMC_DISCONNECTED

\* C38: a tell, channel or who command that is turned down for another
\* reason than the rate limit (it calls imc_send_message for no envelope
\* and the rate limiter refused nothing) leaves every counter of the rate
\* limiter as it was
C38_RejectedCommandIsFree ==
    [][(/\ ncmd' = ncmd + 1
        /\ op'.name \in {"imctell", "channel", "imcwho"}
        /\ op'.sent = <<>>
        /\ op'.failed = <<>>
        /\ op'.refused = <<>>)
       => /\ rate' = rate
          /\ op'.granted = <<>>]_vars

\* C39: the echo "You tell user@mud: msg" and the history entry of a tell
\* are made only if the envelope of the tell was written: an imctell whose
\* write failed shows no echo and adds nothing to the history
C39_EchoOnlyAfterWrite ==
    (/\ op.name = "imctell"
     /\ op.failed # <<>>)
    => /\ \A i \in 1..Len(op.delivered) : op.delivered[i].style # "tell"
       /\ op.history = <<>>

====
